---- MODULE Spec2Model ----
(***************************************************************************)
(* LayerView G-code front end: GcodeScanner (regex tokenizer),             *)
(* CommandParser (grouping and typed construction of commands) and         *)
(* GcodeParser.command_generator (the line loop that yields commands).     *)
(* A line is a sequence of one-character strings; a token is a pair        *)
(* <<letter, literal>> whose literal is again a sequence of characters.    *)
(***************************************************************************)
EXTENDS Integers, Sequences, FiniteSets, TLC

\* ------------------------------------------------------------------------
\* Characters
\* ------------------------------------------------------------------------
UPPER == << "A","B","C","D","E","F","G","H","I","J","K","L","M",
            "N","O","P","Q","R","S","T","U","V","W","X","Y","Z" >>
LOWER == << "a","b","c","d","e","f","g","h","i","j","k","l","m",
            "n","o","p","q","r","s","t","u","v","w","x","y","z" >>
DIGITS == << "0","1","2","3","4","5","6","7","8","9" >>

Range(s) == { s[i] : i \in DOMAIN s }

\* str.lower() on one character
LowerChar(c) ==
  IF \E i \in DOMAIN UPPER : UPPER[i] = c
  THEN LOWER[CHOOSE i \in DOMAIN UPPER : UPPER[i] = c]
  ELSE c

\* regex classes [a-z], \d, \s and "." (any character but a newline)
IsLowerLetter(c) == c \in Range(LOWER)
IsDigit(c) == c \in Range(DIGITS)
IsSpace(c) == c \in {" ", "\t", "\n", "\r", "\f"}
IsNewline(c) == c = "\n"

\* ------------------------------------------------------------------------
\* GcodeScanner
\* ------------------------------------------------------------------------
\* index of the first newline at or after i, Len(s)+1 when there is none:
\* the place where a ".*" that starts at i has to stop
DotStarEnd(s, i) ==
  IF \E k \in i..Len(s) : IsNewline(s[k])
  THEN CHOOSE k \in i..Len(s) :
         IsNewline(s[k]) /\ \A m \in i..(k-1) : ~IsNewline(s[m])
  ELSE Len(s) + 1

\* index after the run of whitespace that starts at i
SpaceRunEnd(s, i) ==
  IF \E k \in i..Len(s) : ~IsSpace(s[k])
  THEN CHOOSE k \in i..Len(s) :
         ~IsSpace(s[k]) /\ \A m \in i..(k-1) : IsSpace(s[m])
  ELSE Len(s) + 1

\* _PATTERN_INSIGNIFICANT = \(.*\)|;.*|\s+ : index after the match that starts
\* at i, or i when the pattern does not match there.  The alternatives are
\* tried in order; .* is greedy, so a parenthesised match runs to the LAST
\* closing parenthesis before the end of the line.
InsignificantEnd(s, i) ==
  LET stop == DotStarEnd(s, i + 1)
      closers == { k \in (i+1)..(stop-1) : s[k] = ")" }
  IN  IF s[i] = "(" /\ closers # {}
      THEN (CHOOSE k \in closers : \A m \in closers : m <= k) + 1
      ELSE IF s[i] = ";"
      THEN stop
      ELSE IF IsSpace(s[i])
      THEN SpaceRunEnd(s, i)
      ELSE i

\* _PATTERN_INSIGNIFICANT.sub("", line), scanning from index i
RECURSIVE SubInsignificant(_, _)
SubInsignificant(s, i) ==
  IF i > Len(s) THEN << >>
  ELSE LET e == InsignificantEnd(s, i)
       IN  IF e > i THEN SubInsignificant(s, e)
           ELSE << s[i] >> \o SubInsignificant(s, i + 1)

\* GcodeScanner._sanitize
Sanitize(line) ==
  LET stripped == SubInsignificant(line, 1)
  IN  [ k \in 1..Len(stripped) |-> LowerChar(stripped[k]) ]

\* index after the run of digits that starts at i
DigitRunEnd(s, i) ==
  IF \E k \in i..Len(s) : ~IsDigit(s[k])
  THEN CHOOSE k \in i..Len(s) :
         ~IsDigit(s[k]) /\ \A m \in i..(k-1) : IsDigit(s[m])
  ELSE Len(s) + 1

\* LiteralEnd with a pattern that has lost its sign: \d*\.?\d*
LiteralEnd_NoSign(s, i) ==
  LET b == DigitRunEnd(s, i)
      c == IF b <= Len(s) /\ s[b] = "." THEN b + 1 ELSE b
  IN  DigitRunEnd(s, c)

\* index after the greedy match of [-+]?\d*\.?\d* that starts at i
LiteralEnd(s, i) ==
  LET a == IF i <= Len(s) /\ s[i] \in {"-", "+"} THEN i + 1 ELSE i
      b == DigitRunEnd(s, a)
      c == IF b <= Len(s) /\ s[b] = "." THEN b + 1 ELSE b
  IN  DigitRunEnd(s, c)

\* _PATTERN_GCODE_TOKEN.findall(s), scanning from index i: characters at which
\* the pattern does not match are passed over
RECURSIVE FindAllTokens(_, _)
FindAllTokens(s, i) ==
  IF i > Len(s) THEN << >>
  ELSE IF IsLowerLetter(s[i])
  THEN LET e == LiteralEnd(s, i + 1)
       IN  << << s[i], SubSeq(s, i + 1, e - 1) >> >> \o FindAllTokens(s, e)
  ELSE FindAllTokens(s, i + 1)

\* GcodeScanner.analyze
Analyze(line) == FindAllTokens(Sanitize(line), 1)

\* ------------------------------------------------------------------------
\* Values: optional values are sequences of length at most one (<< >> is
\* Python's None); a float is the decimal it denotes, in canonical form
\* ------------------------------------------------------------------------
Some(v) == << v >>
Nothing == << >>

NoError == [type |-> "", msg |-> ""]
Error(t, m) == [type |-> t, msg |-> m]

DigitVal(c) == (CHOOSE i \in DOMAIN DIGITS : DIGITS[i] = c) - 1

RECURSIVE IntOf(_)
IntOf(ds) ==
  IF ds = << >> THEN 0
  ELSE 10 * IntOf(SubSeq(ds, 1, Len(ds) - 1)) + DigitVal(ds[Len(ds)])

RECURSIVE StripTrailingZeros(_)
StripTrailingZeros(ds) ==
  IF ds # << >> /\ ds[Len(ds)] = "0"
  THEN StripTrailingZeros(SubSeq(ds, 1, Len(ds) - 1))
  ELSE ds

\* float(value_str) for the literals the token pattern can produce
\* ([-+]?\d*\.?\d*): a ValueError unless the literal holds a digit, else the
\* number written, with -0 equal to 0 and 1., 1.0 and 1 the same number
Float(lit) ==
  LET a == IF lit # << >> /\ lit[1] \in {"-", "+"} THEN 2 ELSE 1
      b == DigitRunEnd(lit, a)
      c == IF b <= Len(lit) /\ lit[b] = "." THEN b + 1 ELSE b
      d == DigitRunEnd(lit, c)
      ipart == IntOf(SubSeq(lit, a, b - 1))
      fpart == StripTrailingZeros(SubSeq(lit, c, d - 1))
      zero == ipart = 0 /\ fpart = << >>
  IN  IF d # Len(lit) + 1 \/ (b = a /\ d = c)
      THEN [ok |-> FALSE, value |-> [neg |-> FALSE, int |-> 0, frac |-> << >>]]
      ELSE [ok |-> TRUE,
            value |-> [neg |-> (a = 2 /\ lit[1] = "-" /\ ~zero),
                       int |-> ipart, frac |-> fpart]]

\* ------------------------------------------------------------------------
\* lexemes.py, tokens.py
\* ------------------------------------------------------------------------
\* LETTERS_COMMAND without the tool letter
LETTERS_COMMAND_NoT == {"g", "m", "n", "d"}
LETTERS_COMMAND == {"g", "t", "m", "n", "d"}
LETTERS_PARAM == {"x", "y", "z", "i", "j", "e", "f", "h", "r", "s"}

G20_SET_UNITS_TO_INCHES == << "g", << "2", "0" >> >>
G21_SET_UNITS_TO_MILLIS == << "g", << "2", "1" >> >>
G90_SET_ABS_POSITIONING == << "g", << "9", "0" >> >>
G91_SET_REL_POSITIONING == << "g", << "9", "1" >> >>
M82_SET_EXTRUDER_ABS_MODE == << "m", << "8", "2" >> >>
M83_SET_EXTRUDER_REL_MODE == << "m", << "8", "3" >> >>
G0_RAPID_MOVE == << "g", << "0" >> >>
G1_LINEAR_MOVE == << "g", << "1" >> >>
G2_CLOCKWISE_ARC_MOVE == << "g", << "2" >> >>
G3_COUNTERCLOCKWISE_ARC_MOVE == << "g", << "3" >> >>
G28_MOVE_TO_ORIGIN == << "g", << "2", "8" >> >>
G92_SET_POSITION == << "g", << "9", "2" >> >>
M104_SET_EXTRUDER_TEMP == << "m", << "1", "0", "4" >> >>
M109_SET_EXTRUDER_TEMP_AND_WAIT == << "m", << "1", "0", "9" >> >>

\* ------------------------------------------------------------------------
\* commands.py: the command classes
\* ------------------------------------------------------------------------
COMMANDS_LINE_MOVE == {"G0", "G1"}
COMMANDS_ARC_MOVE == {"G2", "G3"}
COMMANDS_SET_TEMPERATURE == {"M104", "M109"}
COMMANDS_WITHOUT_PARAMS == {"G20", "G21", "G90", "G91", "M82", "M83"}

\* the param_letters attribute of the classes that have one
ParamLetters(type) ==
  CASE type \in COMMANDS_LINE_MOVE -> {"x", "y", "z", "e", "f", "h", "r", "s"}
    [] type \in COMMANDS_ARC_MOVE -> {"x", "y", "i", "j", "e", "f"}
    [] type = "M104" -> {"s", "r", "d"}
    [] type = "M109" -> {"s", "r", "t"}
    [] type = "G28" -> {"x", "y", "z"}
    [] type = "G92" -> {"x", "y", "z", "e"}
    [] OTHER -> {}

\* a keyword argument of a constructor call: the value passed, None by default
Kw(kw, l) == IF l \in DOMAIN kw THEN Some(kw[l]) ELSE Nothing

\* a constructed command; line_number is None until the generator sets it
Cmd(type, fields) == [type |-> type, line_number |-> Nothing, fields |-> fields]

Built(cmd) == [err |-> NoError, cmd |-> << cmd >>]
Failed(t, m) == [err |-> Error(t, m), cmd |-> << >>]

\* LineMove.__init__ (G0, G1)
LineMoveInit(type, kw) ==
  LET attrs == {"x", "y", "z", "e", "f", "h", "r", "s"}
  IN  IF ~(\E l \in attrs : Kw(kw, l) # Nothing)
      THEN Failed("CommandMissingParamError",
                  "At least one G-code parameter must be specified.")
      ELSE Built(Cmd(type, [l \in attrs |-> Kw(kw, l)]))

\* ArcMoveInit asking for any of the mandatory parameters instead of all
ArcMoveInit_Any(type, kw) ==
  LET params_mandatory == {"x", "y", "i", "j", "e"}
  IN  IF ~(\E l \in params_mandatory : Kw(kw, l) # Nothing)
      THEN Failed("CommandMissingParamError",
                  "The following parameters must be specified: x, y, i, j, e.")
      ELSE Built(Cmd(type, [l \in {"x", "y", "i", "j", "e", "f"} |-> Kw(kw, l)]))

\* ArcMove.__init__ (G2, G3)
ArcMoveInit(type, kw) ==
  LET params_mandatory == {"x", "y", "i", "j", "e"}
  IN  IF ~(\A l \in params_mandatory : Kw(kw, l) # Nothing)
      THEN Failed("CommandMissingParamError",
                  "The following parameters must be specified: x, y, i, j, e.")
      ELSE Built(Cmd(type, [l \in {"x", "y", "i", "j", "e", "f"} |-> Kw(kw, l)]))

\* G92.__init__
G92Init(kw) ==
  IF ~(\E l \in {"x", "y", "z", "e"} : Kw(kw, l) # Nothing)
  THEN Failed("CommandMissingParamError", "At least one axis must be specified.")
  ELSE Built(Cmd("G92", [l \in {"x", "y", "z", "e"} |-> Kw(kw, l)]))

\* M104.__init__, M109.__init__: s is a required positional argument, so a
\* call without it is Python's TypeError
SetTemperatureInit(type, kw) ==
  IF "s" \notin DOMAIN kw
  THEN Failed("TypeError", "__init__() missing 1 required positional argument: 's'")
  ELSE Built(Cmd(type, [l \in ParamLetters(type) |-> Kw(kw, l)]))

\* G28.__init__
G28Init(flags) == Built(Cmd("G28", flags))

\* command_type(**param_to_value)
Construct(type, kw) ==
  CASE type \in COMMANDS_LINE_MOVE -> LineMoveInit(type, kw)
    [] type \in COMMANDS_ARC_MOVE -> ArcMoveInit(type, kw)
    [] type \in COMMANDS_SET_TEMPERATURE -> SetTemperatureInit(type, kw)
    [] type = "G92" -> G92Init(kw)

\* ------------------------------------------------------------------------
\* commands.py: CommandParser
\* ------------------------------------------------------------------------
\* the loop of CommandParser._group_tokens_by_command from token i on, with
\* the groups closed so far and the group being filled
RECURSIVE GroupLoop(_, _, _, _)
GroupLoop(tokens, i, groups, current_group) ==
  IF i > Len(tokens)
  THEN [err |-> NoError,
        groups |-> IF current_group # << >>
                   THEN Append(groups, current_group) ELSE groups]
  ELSE LET field == tokens[i]
           letter == field[1]
       IN  IF letter \in LETTERS_COMMAND
           THEN GroupLoop(tokens, i + 1,
                          IF current_group # << >>
                          THEN Append(groups, current_group) ELSE groups,
                          << field >>)
           ELSE IF letter \in LETTERS_PARAM
           THEN IF current_group = << >>
                THEN [err |-> Error("CommandTokenError",
                        "Parameter field specified without a previous command field."),
                      groups |-> << >>]
                ELSE GroupLoop(tokens, i + 1, groups, Append(current_group, field))
           ELSE [err |-> Error("CommandTokenError", "Unrecognized G-code field letter."),
                 groups |-> << >>]

\* CommandParser._group_tokens_by_command
GroupTokensByCommand(tokens) == GroupLoop(tokens, 1, << >>, << >>)

\* param_to_value[token_letter] = value
DictSet(d, k, v) == [l \in (DOMAIN d) \cup {k} |-> IF l = k THEN v ELSE d[l]]

\* the loop of CommandParser._create_from_float_params from token i on: the
\* tokens are taken left to right, and the first one that is not a parameter
\* of the command, or whose literal is not a number, ends the call
RECURSIVE FloatParamsLoop(_, _, _, _)
FloatParamsLoop(tokens, i, command_type, param_to_value) ==
  IF i > Len(tokens) THEN Construct(command_type, param_to_value)
  ELSE LET token_letter == tokens[i][1]
           value == Float(tokens[i][2])
       IN  IF token_letter \notin ParamLetters(command_type)
           THEN Failed("CommandInvalidParamError", "Unrecognized parameter letter")
           ELSE IF ~value.ok
           THEN Failed("ValueError", "could not convert string to float")
           ELSE FloatParamsLoop(tokens, i + 1, command_type,
                                DictSet(param_to_value, token_letter, value.value))

\* CommandParser._create_from_float_params
CreateFromFloatParams(tokens, command_type) ==
  FloatParamsLoop(tokens, 2, command_type, << >>)

\* CreateG28 setting a flag by the value of the token instead of its presence
CreateG28_ByValue(tokens) ==
  G28Init([l \in ParamLetters("G28") |->
             \E k \in DOMAIN tokens :
               /\ tokens[k][1] = l
               /\ Float(tokens[k][2]).ok
               /\ Float(tokens[k][2]).value # [neg |-> FALSE, int |-> 0, frac |-> << >>]])

\* CommandParser._create_g28: every token of the group is looked at, the
\* command token included, and a letter that is no axis is passed over
CreateG28(tokens) ==
  G28Init([l \in ParamLetters("G28") |->
             \E k \in DOMAIN tokens : tokens[k][1] = l])

\* CommandParser._create_g20 .. _create_m83: the tokens are not looked at
CreateWithoutParams(tokens, command_type) == Built(Cmd(command_type, << >>))

\* CommandParser._command_token_to_handler, the handler named by the type
\* of the command it creates
CommandTokenToHandler ==
  { << G0_RAPID_MOVE, "G0" >>, << G1_LINEAR_MOVE, "G1" >>,
    << G2_CLOCKWISE_ARC_MOVE, "G2" >>, << G3_COUNTERCLOCKWISE_ARC_MOVE, "G3" >>,
    << G28_MOVE_TO_ORIGIN, "G28" >>, << G92_SET_POSITION, "G92" >>,
    << M104_SET_EXTRUDER_TEMP, "M104" >>,
    << M109_SET_EXTRUDER_TEMP_AND_WAIT, "M109" >>,
    << G20_SET_UNITS_TO_INCHES, "G20" >>, << G21_SET_UNITS_TO_MILLIS, "G21" >>,
    << G90_SET_ABS_POSITIONING, "G90" >>, << G91_SET_REL_POSITIONING, "G91" >>,
    << M82_SET_EXTRUDER_ABS_MODE, "M82" >>, << M83_SET_EXTRUDER_REL_MODE, "M83" >> }

\* CommandParser._get_handler: dict.get, "" standing for None (no handler)
GetHandler(command_token) ==
  IF \E e \in CommandTokenToHandler : e[1] = command_token
  THEN (CHOOSE e \in CommandTokenToHandler : e[1] = command_token)[2]
  ELSE ""

\* handler(token_group)
CallHandler(handler, token_group) ==
  CASE handler = "G28" -> CreateG28(token_group)
    [] handler \in COMMANDS_WITHOUT_PARAMS -> CreateWithoutParams(token_group, handler)
    [] OTHER -> CreateFromFloatParams(token_group, handler)

\* ParseLoop that does not look at skip_unknown: an unsupported command is
\* always an error
RECURSIVE ParseLoop_NeverSkip(_, _, _, _)
ParseLoop_NeverSkip(tokens_grouped, i, commands, skip) ==
  IF i > Len(tokens_grouped) THEN [err |-> NoError, commands |-> commands]
  ELSE LET token_group == tokens_grouped[i]
           handler == GetHandler(token_group[1])
       IN  IF handler # ""
           THEN LET made == CallHandler(handler, token_group)
                IN  IF made.err # NoError
                    THEN [err |-> made.err, commands |-> << >>]
                    ELSE ParseLoop_NeverSkip(tokens_grouped, i + 1,
                                             commands \o made.cmd, skip)
           ELSE [err |-> Error("CommandParseError", "Unsupported command"),
                 commands |-> << >>]

\* the loop of CommandParser.parse from group i on
RECURSIVE ParseLoop(_, _, _, _)
ParseLoop(tokens_grouped, i, commands, skip) ==
  IF i > Len(tokens_grouped) THEN [err |-> NoError, commands |-> commands]
  ELSE LET token_group == tokens_grouped[i]
           command_token == token_group[1]
           handler == GetHandler(command_token)
       IN  IF handler # ""
           THEN LET made == CallHandler(handler, token_group)
                IN  IF made.err # NoError
                    THEN [err |-> made.err, commands |-> << >>]
                    ELSE ParseLoop(tokens_grouped, i + 1,
                                   commands \o made.cmd, skip)
           ELSE IF ~skip
           THEN [err |-> Error("CommandParseError", "Unsupported command"),
                 commands |-> << >>]
           ELSE ParseLoop(tokens_grouped, i + 1, commands, skip)

\* CommandParser.parse
Parse(tokens, skip) ==
  LET grouped == GroupTokensByCommand(tokens)
  IN  IF grouped.err # NoError
      THEN [err |-> grouped.err, commands |-> << >>]
      ELSE ParseLoop(grouped.groups, 1, << >>, skip)

\* ------------------------------------------------------------------------
\* Input lines.  The iterable handed to command_generator is the
\* environment: every iteration of the loop draws the next line from Lines.
\* A drawn line is a record [src, text]: text is the raw line, src tells how
\* it was written (its family and the pieces it was put together from).
\* ------------------------------------------------------------------------
MaxLines == 2      \* lines the input holds at most
MaxFields == 3     \* fields of a line of plain fields
MaxPieces == 2     \* blanks / parenthesised comments of a comment-only line
MaxParams == 2     \* parameters of a single-command line (arc moves: five more)
MaxGroups == 2     \* commands of a many-command line
MaxOver == 2       \* characters a long line exceeds the length limit by
MaxParts == 3      \* fields and parenthesised comments of a mixed line

SeqsUpTo(S, n) == UNION { [1..k -> S] : k \in 0..n }

RECURSIVE Cat(_)
Cat(ss) == IF ss = << >> THEN << >> ELSE Head(ss) \o Cat(Tail(ss))

Blanks(n) == [k \in 1..n |-> " "]

Src(kind, fields, groups, style) ==
  [kind |-> kind, fields |-> fields, groups |-> groups, style |-> style]

\* lines of plain fields: letter and optional signed decimal, in either case,
\* with the same whitespace (possibly none) after every field
FieldLetters == {"G", "x"}
FieldLiterals == { << >>, << "1" >>, << "-", ".", "5" >> }
FieldSeparators == { << >>, << " ", "\t" >> }
FieldText(fields, sep) ==
  Cat([k \in 1..Len(fields) |-> << fields[k][1] >> \o fields[k][2] \o sep])
ExampleFields ==
  << << "G", << "1" >> >>, << "X", << "1", "0" >> >>, << "Y", << "2", "0" >> >>,
     << "Z", << "5" >> >>, << "F", << "1", "2", "0", "0" >> >> >>
FieldLines ==
  { [src |-> Src("fields", fs, << >>, ""), text |-> FieldText(fs, sep)] :
      fs \in SeqsUpTo(FieldLetters \X FieldLiterals, MaxFields) \ { << >> },
      sep \in FieldSeparators }
  \cup { [src |-> Src("fields", ExampleFields, << >>, ""),
          text |-> FieldText(ExampleFields, << " " >>)] }

\* lines of lower-case fields over command letters, parameter letters and a
\* letter that is neither, all with the literal 1
GroupingLetters == {"g", "t", "x", "s", "q"}
LetterLines ==
  { [src |-> Src("letters", << >>, << >>, ""),
     text |-> Cat([k \in 1..Len(ls) |-> << ls[k], "1" >>])] :
      ls \in SeqsUpTo(GroupingLetters, MaxFields) }

\* comment-only lines: blanks and parenthesised comments, then possibly a
\* ;-comment, then possibly the line end
CommentPieces ==
  { << " " >>, << "\t" >>, << "(", ")" >>,
    << "(", "G", "1", ";", "x", ")" >>, << "(", "(", "b", ")", " ", ")" >> }
CommentTails ==
  { << >>, << ";" >>, << ";", "G", "1", " ", "X", "1" >>, << ";", ")", " ", "(", "a" >> }
LineEnds == { << >>, << "\n" >> }
CommentLines ==
  { [src |-> Src("comment", << >>, << >>, ""), text |-> Cat(ps) \o tail \o nl] :
      ps \in SeqsUpTo(CommentPieces, MaxPieces), tail \in CommentTails,
      nl \in LineEnds }

\* single-command lines: a command code and a set of parameters
CommandCodes ==
  { << "G", "0" >>, << "G", "1" >>, << "G", "2" >>, << "G", "3" >>,
    << "G", "2", "8" >>, << "G", "9", "2" >>, << "G", "2", "0" >>,
    << "G", "2", "1" >>, << "G", "9", "0" >>, << "G", "9", "1" >>,
    << "M", "8", "2" >>, << "M", "8", "3" >>, << "M", "1", "0", "4" >>,
    << "M", "1", "0", "9" >>,
    << "G", "0", "1" >>, << "M", "1", "0", "5" >> }
ParamOrder == << "X", "Y", "Z", "I", "J", "E", "F", "H", "R", "S" >>
ParamPool == {"X", "Y", "Z", "I", "E", "F", "R", "S"}
ArcParams == {"X", "Y", "I", "J", "E"}
\* the literal a parameter is written with, and the number that literal denotes
ParamLiteral(l) ==
  CASE l = "X" -> << "1" >>
    [] l = "Y" -> << "-", "2" >>
    [] l = "Z" -> << ".", "5" >>
    [] l = "I" -> << "+", "3" >>
    [] l = "J" -> << "0", "4" >>
    [] l = "E" -> << "1", ".", "5", "0" >>
    [] l = "F" -> << "1", "2", "0", "0" >>
    [] l = "H" -> << "1", "." >>
    [] l = "R" -> << "-", "0" >>
    [] l = "S" -> << "2", "0", "0" >>
ParamNumber(l) ==
  CASE l = "X" -> [neg |-> FALSE, int |-> 1, frac |-> << >>]
    [] l = "Y" -> [neg |-> TRUE, int |-> 2, frac |-> << >>]
    [] l = "Z" -> [neg |-> FALSE, int |-> 0, frac |-> << "5" >>]
    [] l = "I" -> [neg |-> FALSE, int |-> 3, frac |-> << >>]
    [] l = "J" -> [neg |-> FALSE, int |-> 4, frac |-> << >>]
    [] l = "E" -> [neg |-> FALSE, int |-> 1, frac |-> << "5" >>]
    [] l = "F" -> [neg |-> FALSE, int |-> 1200, frac |-> << >>]
    [] l = "H" -> [neg |-> FALSE, int |-> 1, frac |-> << >>]
    [] l = "R" -> [neg |-> FALSE, int |-> 0, frac |-> << >>]
    [] l = "S" -> [neg |-> FALSE, int |-> 200, frac |-> << >>]
StyledLiteral(l, style) ==
  CASE style = "own" -> ParamLiteral(l)
    [] style = "none" -> << >>
    [] style = "zero" -> << "0" >>
ParamSets ==
  { ps \in SUBSET ParamPool : Cardinality(ps) <= MaxParams }
  \cup { ArcParams \cup ps : ps \in { qs \in SUBSET ParamPool : Cardinality(qs) <= 1 } }
\* the parameters of ps in the order of ParamOrder
ParamFields(ps, style) ==
  LET pick == SelectSeq(ParamOrder, LAMBDA l : l \in ps)
  IN  [k \in 1..Len(pick) |-> << pick[k], StyledLiteral(pick[k], style) >>]
CommandLine(code, ps, style) ==
  [src |-> Src("command", ParamFields(ps, style), << code >>, style),
   text |-> code \o Cat([k \in 1..Len(ParamFields(ps, style)) |->
              << " ", ParamFields(ps, style)[k][1] >> \o ParamFields(ps, style)[k][2]])]
\* every code with the parameters' own literals; G28 and G1 also with the
\* literals left out, G28 also with 0 for every literal
CommandLines ==
  { CommandLine(code, ps, "own") : code \in CommandCodes, ps \in ParamSets }
  \cup { CommandLine(code, ps, "none") :
           code \in { << "G", "2", "8" >>, << "G", "1" >> }, ps \in ParamSets }
  \cup { CommandLine(<< "G", "2", "8" >>, ps, "zero") : ps \in ParamSets }

\* many-command lines: commands one after the other on one line
GroupTexts ==
  { << "G", "1", " ", "X", "1" >>, << "G", "9", "0" >>, << "G", "2", "8", "X" >>,
    << "M", "9", "9", "9" >>, << "G", "1" >>, << "G", "1", " ", "X" >>,
    << "M", "1", "0", "4" >> }
MultiLines ==
  { [src |-> Src("multi", << >>, gs, ""),
     text |-> Cat([k \in 1..Len(gs) |-> gs[k] \o << " " >>])] :
      gs \in SeqsUpTo(GroupTexts, MaxGroups) }

\* GcodeParser._LINE_LENGTH_MAX
LINE_LENGTH_MAX == 256

\* lines around the length limit: a short line, blanks up to the wanted
\* length, then possibly the line end
LongBases ==
  { << >>, << ";", " ", "c" >>, << "(", "c", ")" >>, << "G", "1", " ", "X", "1" >>,
    << "X", "1" >>, << "G", "1" >> }
LongLines ==
  { [src |-> Src("long", << >>, << base >>, ""),
     text |-> base \o Blanks(n - Len(base) - Len(nl)) \o nl] :
      base \in LongBases, nl \in LineEnds,
      n \in (LINE_LENGTH_MAX - 1)..(LINE_LENGTH_MAX + MaxOver) }

\* mixed lines: fields and parenthesised comments one after the other, a
\* blank after each, then possibly a ;-comment; src.fields are the fields
\* in their order
MixedParts ==
  { [field |-> << << "G", << "1" >> >> >>, text |-> << "G", "1" >>],
    [field |-> << << "X", << "1" >> >> >>, text |-> << "X", "1" >>],
    [field |-> << >>, text |-> << "(", "a", ")" >>] }
MixedTails == { << >>, << ";", " ", "(", "b", ")", " ", "Y", "2" >> }
MixedLines ==
  { [src |-> Src("mixed", Cat([k \in 1..Len(ps) |-> ps[k].field]), << >>, ""),
     text |-> Cat([k \in 1..Len(ps) |-> ps[k].text \o << " " >>]) \o tail] :
      ps \in SeqsUpTo(MixedParts, MaxParts) \ { << >> }, tail \in MixedTails }

Lines == FieldLines \cup LetterLines \cup CommentLines \cup CommandLines
         \cup MultiLines \cup LongLines \cup MixedLines

\* ------------------------------------------------------------------------
\* simulation/machine.py.  A float is the number it denotes, kept exactly as
\* a count of hundred-thousandths; a Point3D is its three coordinates
\* ------------------------------------------------------------------------
Whole(n) == n * 100000
Milli(n) == n * 100
TenThousandths(n) == n * 10

Point3D(x, y, z) == [x |-> x, y |-> y, z |-> z]
\* Point3D.__add__, Point3D.__sub__
PointAdd(p, q) == Point3D(p.x + q.x, p.y + q.y, p.z + q.z)
PointSub(p, q) == Point3D(p.x - q.x, p.y - q.y, p.z - q.z)

\* round(v, 3): to the nearest thousandth, a tie to the even one
Round3(v) ==
  LET q == v \div 100
      r == v % 100
  IN  IF r < 50 \/ (r = 50 /\ q % 2 = 0) THEN q * 100 ELSE (q + 1) * 100

\* An attribute that holds a Point3D refers to an object: either the default
\* argument of MachineState.__init__ for that attribute, which Python creates
\* once, when the function is defined, and hands to every call that leaves
\* the argument out, or an object of its own.
Default == [shared |-> TRUE, at |-> Point3D(0, 0, 0)]
Own(p) == [shared |-> FALSE, at |-> p]

\* the default arguments position and offset_position as the def creates them
DefaultArguments ==
  [position |-> Point3D(0, 0, 0), offset_position |-> Point3D(0, 0, 0)]

\* MachineState.__init__ called without arguments
MachineState ==
  [position |-> Default, offset_position |-> Default,
   extruder |-> 0, offset_extruder |-> 0,
   feedrate |-> Whole(40), temp_extruder |-> 0,
   is_rel_positioning |-> FALSE, is_rel_extruder |-> FALSE,
   is_imperial |-> FALSE]

\* Machine.__init__
Machine(skip) ==
  [skip_unknown |-> skip, state_previous |-> MachineState,
   state_current |-> MachineState]

\* The operations of a Machine read and write a world w: the two default
\* arguments (w.defaults) and the machine itself (w.machine).
World(d, m) == [defaults |-> d, machine |-> m]

\* state.position, state.offset_position: the Point3D the attribute refers to
Deref(w, st, attr) ==
  IF w.machine[st][attr].shared THEN w.defaults[attr] ELSE w.machine[st][attr].at

\* self.state_current.<attr> = v
SetAttr(w, attr, v) == [w EXCEPT !.machine.state_current[attr] = v]

\* self.state_current.<attr>.<axis> = v: the object referred to is changed
SetAxis(w, attr, axis, v) ==
  IF w.machine.state_current[attr].shared
  THEN [w EXCEPT !.defaults[attr][axis] = v]
  ELSE [w EXCEPT !.machine.state_current[attr].at[axis] = v]

\* MachineState.position_abs
MachineState_position_abs(w, st) ==
  PointSub(Deref(w, st, "position"), Deref(w, st, "offset_position"))

\* MachineState.extruder_abs
MachineState_extruder_abs(w, st) ==
  w.machine[st].extruder - w.machine[st].offset_extruder

\* MachineState.unit_multiplier with every unit metric
MachineState_unit_multiplier_Metric(state) == << 10, 10 >>

\* MachineState.unit_multiplier, as a fraction: 25.4 or 1.0
MachineState_unit_multiplier(state) ==
  IF state.is_imperial THEN << 254, 10 >> ELSE << 10, 10 >>

\* value * multiplier
Times(v, m) == (v * m[1]) \div m[2]

\* MachineState.update, called as state_previous.update(state_current)
MachineState_update(w) ==
  LET state == w.machine.state_current
  IN  [w EXCEPT !.machine.state_previous =
        [position |-> Own(Deref(w, "state_current", "position")),
         offset_position |-> Own(Deref(w, "state_current", "offset_position")),
         extruder |-> state.extruder,
         offset_extruder |-> state.offset_extruder,
         feedrate |-> state.feedrate,
         temp_extruder |-> state.feedrate,
         is_rel_positioning |-> state.is_rel_positioning,
         is_rel_extruder |-> state.is_rel_extruder,
         is_imperial |-> state.is_imperial]]

\* get_xyz_from_command, for a Move
get_xyz_from_command(command) ==
  IF command.type \in COMMANDS_LINE_MOVE
  THEN << command.fields.x, command.fields.y, command.fields.z >>
  ELSE << command.fields.x, command.fields.y, Nothing >>

\* val or 0
OrZero(val) == IF val = Nothing THEN 0 ELSE val[1]

\* the truth value of an optional float: None and 0.0 are false
Truthy(val) == val # Nothing /\ val[1] # 0

\* the extruder part of Machine._handle_move with the extruder always absolute
MoveExtruder_Absolute(w, command) ==
  IF command.fields.e # Nothing
  THEN SetAttr(w, "extruder", command.fields.e[1])
  ELSE w

\* Machine._handle_move: the extruder
MoveExtruder(w, command) ==
  IF command.fields.e # Nothing
  THEN IF w.machine.state_previous.is_rel_extruder
       THEN SetAttr(w, "extruder",
                    w.machine.state_previous.extruder + command.fields.e[1])
       ELSE SetAttr(w, "extruder", command.fields.e[1])
  ELSE w

\* Machine._handle_move: the position, relative positioning
MovePositionRelative(w, command) ==
  LET xyz == get_xyz_from_command(command)
      position_delta == Point3D(OrZero(xyz[1]), OrZero(xyz[2]), OrZero(xyz[3]))
      sum == PointAdd(Deref(w, "state_previous", "position"), position_delta)
  IN  SetAttr(w, "position",
              Own(Point3D(Round3(sum.x), Round3(sum.y), Round3(sum.z))))

\* Machine._handle_move: the position, absolute positioning
MovePositionAbsolute(w, command) ==
  LET m == MachineState_unit_multiplier(w.machine.state_previous)
      w1 == IF command.fields.x # Nothing
            THEN SetAxis(w, "position", "x", Times(command.fields.x[1], m))
            ELSE w
      w2 == IF command.fields.y # Nothing
            THEN SetAxis(w1, "position", "y", Times(command.fields.y[1], m))
            ELSE w1
  IN  IF command.type \in COMMANDS_LINE_MOVE /\ command.fields.z # Nothing
      THEN SetAxis(w2, "position", "z", Times(command.fields.z[1], m))
      ELSE w2

\* Machine._handle_move
Machine_handle_move(w, command) ==
  LET w1 == IF command.fields.f # Nothing
            THEN SetAttr(w, "feedrate", command.fields.f[1])
            ELSE w
      w2 == MoveExtruder(w1, command)
  IN  IF w.machine.state_previous.is_rel_positioning
      THEN MovePositionRelative(w2, command)
      ELSE MovePositionAbsolute(w2, command)

\* Machine._set_units_to_inches .. Machine._set_extruder_rel_mode
Machine_set_units_to_inches(w) == SetAttr(w, "is_imperial", TRUE)
Machine_set_units_to_millis(w) == SetAttr(w, "is_imperial", FALSE)
Machine_set_abs_positioning(w) == SetAttr(w, "is_rel_positioning", FALSE)
Machine_set_rel_positioning(w) == SetAttr(w, "is_rel_positioning", TRUE)
Machine_set_extruder_abs_mode(w) == SetAttr(w, "is_rel_extruder", FALSE)
Machine_set_extruder_rel_mode(w) == SetAttr(w, "is_rel_extruder", TRUE)

\* self.state_current.offset_position.<axis> = 0
\* self.state_current.position.<axis> = 0
HomeAxis(w, axis) ==
  SetAxis(SetAxis(w, "offset_position", axis, 0), "position", axis, 0)

\* Machine._move_to_origin homing every axis whatever the flags
Machine_move_to_origin_AllAxes(w, command) ==
  SetAttr(SetAttr(w, "offset_position", Own(Point3D(0, 0, 0))),
          "position", Own(Point3D(0, 0, 0)))

\* Machine._move_to_origin
Machine_move_to_origin(w, command) ==
  IF ~(command.fields.x \/ command.fields.y \/ command.fields.z)
  THEN SetAttr(SetAttr(w, "offset_position", Own(Point3D(0, 0, 0))),
               "position", Own(Point3D(0, 0, 0)))
  ELSE LET w1 == IF command.fields.x THEN HomeAxis(w, "x") ELSE w
           w2 == IF command.fields.y THEN HomeAxis(w1, "y") ELSE w1
       IN  IF command.fields.z THEN HomeAxis(w2, "z") ELSE w2

\* self.state_current.offset_position.<axis> =
\*     self.state_previous.position.<axis> - command.<axis>
OffsetAxis(w, command, axis) ==
  IF Truthy(command.fields[axis])
  THEN SetAxis(w, "offset_position", axis,
               Deref(w, "state_previous", "position")[axis]
                 - command.fields[axis][1])
  ELSE w

\* Machine._set_position
Machine_set_position(w, command) ==
  LET w3 == OffsetAxis(OffsetAxis(OffsetAxis(w, command, "x"), command, "y"),
                       command, "z")
  IN  IF Truthy(command.fields.e)
      THEN SetAttr(w3, "offset_extruder",
                   w.machine.state_previous.extruder - command.fields.e[1])
      ELSE w3

\* Machine._set_temperature_extruder
Machine_set_temperature_extruder(w, command) ==
  SetAttr(w, "temp_extruder", command.fields.s[1])

\* commands.COMMANDS_MOVE
COMMANDS_MOVE == COMMANDS_LINE_MOVE \cup COMMANDS_ARC_MOVE

\* Machine._command_type_to_handler with Machine._get_handler: the handler of
\* the command's class, "" standing for None
Machine_get_handler(command) ==
  CASE command.type \in COMMANDS_MOVE -> "_handle_move"
    [] command.type \in COMMANDS_SET_TEMPERATURE -> "_set_temperature_extruder"
    [] command.type = "G20" -> "_set_units_to_inches"
    [] command.type = "G21" -> "_set_units_to_millis"
    [] command.type = "G28" -> "_move_to_origin"
    [] command.type = "G90" -> "_set_abs_positioning"
    [] command.type = "G91" -> "_set_rel_positioning"
    [] command.type = "M82" -> "_set_extruder_abs_mode"
    [] command.type = "M83" -> "_set_extruder_rel_mode"
    [] command.type = "G92" -> "_set_position"
    [] OTHER -> ""

\* command_handler(command)
Machine_call_handler(handler, w, command) ==
  CASE handler = "_handle_move" -> Machine_handle_move(w, command)
    [] handler = "_set_temperature_extruder" ->
         Machine_set_temperature_extruder(w, command)
    [] handler = "_set_units_to_inches" -> Machine_set_units_to_inches(w)
    [] handler = "_set_units_to_millis" -> Machine_set_units_to_millis(w)
    [] handler = "_move_to_origin" -> Machine_move_to_origin(w, command)
    [] handler = "_set_abs_positioning" -> Machine_set_abs_positioning(w)
    [] handler = "_set_rel_positioning" -> Machine_set_rel_positioning(w)
    [] handler = "_set_extruder_abs_mode" -> Machine_set_extruder_abs_mode(w)
    [] handler = "_set_extruder_rel_mode" -> Machine_set_extruder_rel_mode(w)
    [] handler = "_set_position" -> Machine_set_position(w, command)

\* Machine.handle_command saving the state before it looks for the handler
Machine_handle_command_SaveFirst(w, command) ==
  LET command_handler == Machine_get_handler(command)
  IN  IF command_handler # ""
      THEN [world |-> Machine_call_handler(command_handler,
                                           MachineState_update(w), command),
            error |-> NoError]
      ELSE IF ~w.machine.skip_unknown
      THEN [world |-> MachineState_update(w),
            error |-> Error("UnknownCommandError", "Unknown command")]
      ELSE [world |-> MachineState_update(w), error |-> NoError]

\* Machine.handle_command: the world it leaves and the exception it raises
Machine_handle_command(w, command) ==
  LET command_handler == Machine_get_handler(command)
  IN  IF command_handler # ""
      THEN [world |-> Machine_call_handler(command_handler,
                                           MachineState_update(w), command),
            error |-> NoError]
      ELSE IF ~w.machine.skip_unknown
      THEN [world |-> w,
            error |-> Error("UnknownCommandError", "Unknown command")]
      ELSE [world |-> w, error |-> NoError]

\* ------------------------------------------------------------------------
\* visualization/point_cloud: Path, Layer, CircularArcInterpolator, Model
\* and ModelBuilder.  A dict is the function from its keys to its values; a
\* Layer is an object, named by its place among the Layers the builder made.
\* ------------------------------------------------------------------------
Point2D(x, y) == [x |-> x, y |-> y]
\* LVecBase3d.xy
xy(p) == Point2D(p.x, p.y)
Add2(p, q) == Point2D(p.x + q.x, p.y + q.y)
Sub2(p, q) == Point2D(p.x - q.x, p.y - q.y)

\* del d[k], for a key d has
DictDel(d, k) == [l \in (DOMAIN d) \ {k} |-> d[l]]

\* Path.__init__
Path(point_first, point_second) == << point_first, point_second >>

Sign(v) == IF v > 0 THEN 1 ELSE IF v < 0 THEN -1 ELSE 0

Abs(v) == IF v < 0 THEN -v ELSE v

\* LVector2d.normalized() * length, for the vectors of the model: along one
\* axis, of length zero (normalized() leaves that one zero), or with sides
\* as 3 to 4, where the length of the vector is 5 to them
NormalizedTimes(v, length) ==
  CASE v.x = 0 \/ v.y = 0 -> Point2D(Sign(v.x) * length, Sign(v.y) * length)
    [] v.x # 0 /\ 4 * Abs(v.x) = 3 * Abs(v.y) ->
         Point2D(Sign(v.x) * ((3 * length) \div 5),
                 Sign(v.y) * ((4 * length) \div 5))
    [] v.y # 0 /\ 3 * Abs(v.x) = 4 * Abs(v.y) ->
         Point2D(Sign(v.x) * ((4 * length) \div 5),
                 Sign(v.y) * ((3 * length) \div 5))

\* a padding that draws the ends in
Path_add_padding_Inward(path, length) ==
  LET n == Len(path)
      started == [path EXCEPT ![1] =
                   Sub2(path[1], NormalizedTimes(Sub2(path[1], path[2]), length))]
  IN  [started EXCEPT ![n] =
        Sub2(started[n],
             NormalizedTimes(Sub2(started[n], started[n - 1]), length))]

\* Path.add_padding: the first point, then the last point with the path as
\* the first assignment left it
Path_add_padding(path, length) ==
  LET n == Len(path)
      started == [path EXCEPT ![1] =
                   Add2(path[1], NormalizedTimes(Sub2(path[1], path[2]), length))]
  IN  [started EXCEPT ![n] =
        Add2(started[n],
             NormalizedTimes(Sub2(started[n], started[n - 1]), length))]

\* Layer.__init__
Layer ==
  [paths |-> << >>,
   temperature_min |-> Nothing, temperature_max |-> Nothing,
   temperature_avg |-> Nothing,
   feedrate_min |-> Nothing, feedrate_max |-> Nothing, feedrate_avg |-> Nothing]

\* an exception of the build: the descent errors carry their arguments
BuildError(t, cur, prev, count) ==
  [type |-> t, cur_layer_z |-> cur, prev_layer_z |-> prev,
   prev_layer_count |-> count]
NoBuildError == BuildError("", Nothing, Nothing, Nothing)
OtherError(t) == BuildError(t, Nothing, Nothing, Nothing)

\* Angles are in millionths of a radian.  math.acos of the cosines the
\* vectors of the model have between them: 1, 0 and -1
PI == 3141593
Acos(cosine) ==
  CASE cosine = 1 -> 0
    [] cosine = 0 -> 1570796
    [] cosine = -1 -> PI

\* LVecBase2d.length() of a vector along one axis
Length(v) == Abs(v.x) + Abs(v.y)

\* linalg.angle_inner, for vectors along the axes: normalized() gives the
\* signs of the components
angle_inner(a, b) ==
  LET dot == Sign(a.x) * Sign(b.x) + Sign(a.y) * Sign(b.y)
      clamped == IF dot > 1 THEN 1 ELSE IF dot < -1 THEN -1 ELSE dot
  IN  Acos(clamped)

\* linalg.determinant, in squares of thousandths
determinant(a, b) ==
  (a.x \div 100) * (b.y \div 100) - (a.y \div 100) * (b.x \div 100)

\* linalg.angle_signed
angle_signed(a, b) ==
  IF determinant(a, b) < 0 THEN -angle_inner(a, b) ELSE angle_inner(a, b)

\* CircularArcInterpolator._get_angle_abs
CircularArcInterpolator_get_angle_abs(src, dst, pivot, is_clockwise) ==
  LET angle_abs == angle_signed(Sub2(src, pivot), Sub2(dst, pivot))
  IN  IF ~is_clockwise THEN angle_abs + 2 * PI ELSE angle_abs

\* math.acos(1 - max_error / radius) for max_error = 0.05 and a radius of
\* 1, 2, 3 or 4
AcosOneMinus(max_error, radius) ==
  CASE max_error = Milli(50) /\ radius = Whole(1) -> 317560
    [] max_error = Milli(50) /\ radius = Whole(2) -> 224075
    [] max_error = Milli(50) /\ radius = Whole(3) -> 182829
    [] max_error = Milli(50) /\ radius = Whole(4) -> 158279

\* CircularArcInterpolator._get_angle_step
CircularArcInterpolator_get_angle_step(radius, max_error, is_clockwise) ==
  LET step_abs == 2 * AcosOneMinus(max_error, radius)
  IN  IF is_clockwise THEN -step_abs ELSE step_abs

\* math.ceil(a / b) for a divisor that is not 0
Ceil(a, b) ==
  IF b < 0 THEN -(a \div (-b)) ELSE -((-a) \div b)

\* CircularArcInterpolator.interpolate: radius is bound to the method
\* (src - pivot).length, which is not called, and math.isclose refuses an
\* argument that is no number before anything else is done
CircularArcInterpolator_interpolate(src, dst, pivot, is_clockwise, max_err) ==
  [err |-> OtherError("TypeError"), points |-> << >>]

\* ModelBuilder.__init__, without the Machine: layers are the Layer objects
\* made so far, cache the results functools.lru_cache keeps for
\* get_layer_at_z of this builder
ModelBuilder ==
  [z_to_layer |-> << >>,
   last_layer_z |-> 0,
   is_after_post_priming_descent |-> FALSE,
   priming_layer |-> Nothing,
   priming_layer_z |-> Nothing,
   layer_to_feedrates |-> << >>,
   layer_to_temperatures |-> << >>,
   layers |-> << >>,
   cache |-> << >>]

Returned(b, layer) == [builder |-> b, layer |-> layer, err |-> NoBuildError]
Raised(b, err) == [builder |-> b, layer |-> 0, err |-> err]

\* the body of ModelBuilder.get_layer_at_z from "Create new layer" on
CreateLayer(b, layer_z) ==
  LET target_layer == Len(b.layers) + 1
  IN  Returned([b EXCEPT
                  !.layers = Append(b.layers, Layer),
                  !.z_to_layer = DictSet(b.z_to_layer, layer_z, target_layer),
                  !.layer_to_temperatures =
                     DictSet(b.layer_to_temperatures, target_layer, << >>),
                  !.layer_to_feedrates =
                     DictSet(b.layer_to_feedrates, target_layer, << >>)],
               target_layer)

\* a demotion that leaves the layer in z_to_layer
Demote_KeepRegistered(b) ==
  [b EXCEPT
     !.priming_layer = Some(b.z_to_layer[b.last_layer_z]),
     !.priming_layer_z = Some(b.last_layer_z),
     !.is_after_post_priming_descent = TRUE]

\* a demotion that leaves the priming flag as it is
Demote_Unflagged(b) ==
  [b EXCEPT
     !.priming_layer = Some(b.z_to_layer[b.last_layer_z]),
     !.z_to_layer = DictDel(b.z_to_layer, b.last_layer_z),
     !.priming_layer_z = Some(b.last_layer_z)]

\* "Set layer at _max_layer_z as priming layer", for a last_layer_z that
\* z_to_layer has
Demote(b) ==
  [b EXCEPT
     !.priming_layer = Some(b.z_to_layer[b.last_layer_z]),
     !.z_to_layer = DictDel(b.z_to_layer, b.last_layer_z),
     !.priming_layer_z = Some(b.last_layer_z),
     !.is_after_post_priming_descent = TRUE]

\* a body that takes a single layer for a late descent already
GetLayerBody_LateAtOne(b, layer_z) ==
  IF layer_z \in DOMAIN b.z_to_layer
  THEN Returned(b, b.z_to_layer[layer_z])
  ELSE IF layer_z < b.last_layer_z
  THEN IF b.is_after_post_priming_descent
       THEN Raised(b, BuildError("PostPrimingDescentError", Some(layer_z),
                                 Some(b.last_layer_z), Nothing))
       ELSE IF Cardinality(DOMAIN b.z_to_layer) >= 1
       THEN Raised(b, BuildError("LateEffectorDescentError", Some(layer_z),
                                 Some(b.last_layer_z),
                                 Some(Cardinality(DOMAIN b.z_to_layer))))
       ELSE IF b.last_layer_z \notin DOMAIN b.z_to_layer
       THEN Raised(b, OtherError("KeyError"))
       ELSE CreateLayer(Demote(b), layer_z)
  ELSE CreateLayer(b, layer_z)

\* the body of ModelBuilder.get_layer_at_z
GetLayerBody(b, layer_z) ==
  IF layer_z \in DOMAIN b.z_to_layer
  THEN Returned(b, b.z_to_layer[layer_z])
  ELSE IF layer_z < b.last_layer_z
  THEN IF b.is_after_post_priming_descent
       THEN Raised(b, BuildError("PostPrimingDescentError", Some(layer_z),
                                 Some(b.last_layer_z), Nothing))
       ELSE IF Cardinality(DOMAIN b.z_to_layer) > 1
       THEN Raised(b, BuildError("LateEffectorDescentError", Some(layer_z),
                                 Some(b.last_layer_z),
                                 Some(Cardinality(DOMAIN b.z_to_layer))))
       ELSE IF b.last_layer_z \notin DOMAIN b.z_to_layer
       THEN Raised(b, OtherError("KeyError"))
       ELSE CreateLayer(Demote(b), layer_z)
  ELSE CreateLayer(b, layer_z)

\* ModelBuilder.get_layer_at_z under @lru_cache(maxsize=128): a result the
\* cache holds for (self, layer_z) is returned without running the body, and
\* a result the body returns is kept (an exception is not); the builds of
\* the model stay far below 128 heights
ModelBuilder_get_layer_at_z(b, layer_z) ==
  IF layer_z \in DOMAIN b.cache
  THEN Returned(b, b.cache[layer_z])
  ELSE LET r == GetLayerBody(b, layer_z)
       IN  IF r.err # NoBuildError THEN r
           ELSE Returned([r.builder EXCEPT
                            !.cache = DictSet(r.builder.cache, layer_z, r.layer)],
                         r.layer)

\* an add_segment_to_layer that starts a new path for every segment
ModelBuilder_add_segment_to_layer_NewPath(b, layer, source, destination) ==
  [b EXCEPT !.layers[layer].paths =
     Append(b.layers[layer].paths, Path(source, destination))]

\* ModelBuilder.add_segment_to_layer
ModelBuilder_add_segment_to_layer(b, layer, source, destination) ==
  LET paths == b.layers[layer].paths
  IN  IF paths = << >> \/ source # paths[Len(paths)][Len(paths[Len(paths)])]
      THEN [b EXCEPT !.layers[layer].paths =
              Append(paths, Path(source, destination))]
      ELSE [b EXCEPT !.layers[layer].paths[Len(paths)] =
              Append(paths[Len(paths)], destination)]

\* for i in range(len(points_interpolated) - 1): add_segment_to_layer(...)
RECURSIVE AddSegments(_, _, _, _)
AddSegments(b, layer, points, i) ==
  IF i >= Len(points) THEN b
  ELSE AddSegments(ModelBuilder_add_segment_to_layer(b, layer, points[i],
                                                     points[i + 1]),
                   layer, points, i + 1)

\* the element of a set of one element: a value that is computed once and
\* then named
TheOne(S) == CHOOSE element \in S : TRUE

\* the test of ModelBuilder._handle_move: is the command a layer printing
\* move?
IsLayerPrintingMove(w, command) ==
  /\ MachineState_position_abs(w, "state_previous").z
       = MachineState_position_abs(w, "state_current").z
  /\ MachineState_extruder_abs(w, "state_current")
       > MachineState_extruder_abs(w, "state_previous")
  /\ (Truthy(command.fields.x) \/ Truthy(command.fields.y))

\* samples taken from the state before the command
SaveSamples_Previous(w, b, target_layer) ==
  [b EXCEPT
     !.layer_to_temperatures[target_layer] =
        Append(@, w.machine.state_previous.temp_extruder),
     !.layer_to_feedrates[target_layer] =
        Append(@, w.machine.state_previous.feedrate)]

\* "Save feedrate and temperature"
SaveSamples(w, b, target_layer) ==
  [b EXCEPT
     !.layer_to_temperatures[target_layer] =
        Append(@, w.machine.state_current.temp_extruder),
     !.layer_to_feedrates[target_layer] =
        Append(@, w.machine.state_current.feedrate)]

\* the arguments ModelBuilder._handle_move gives the interpolator for an
\* ArcMove
InterpolateArguments(w, command) ==
  [src |-> xy(MachineState_position_abs(w, "state_previous")),
   dst |-> xy(MachineState_position_abs(w, "state_current")),
   pivot |-> Point2D(command.fields.i[1], command.fields.j[1]),
   is_clockwise |-> command.type = "G2",
   max_err |-> Milli(50)]

\* ModelBuilder._handle_move, for a Move, in the world w the Machine left:
\* the builder it leaves and the exception it raises
ModelBuilder_handle_move(w, b, command) ==
  LET pos_prev == MachineState_position_abs(w, "state_previous")
      pos_cur == MachineState_position_abs(w, "state_current")
  IN  IF ~IsLayerPrintingMove(w, command)
      THEN [builder |-> b, err |-> NoBuildError]
      ELSE TheOne({
             LET b1 == [found.builder EXCEPT !.last_layer_z = pos_cur.z]
             IN  IF found.err # NoBuildError
                 THEN [builder |-> b, err |-> found.err]
                 ELSE IF command.type \in COMMANDS_LINE_MOVE
                 THEN [builder |->
                         SaveSamples(w,
                           ModelBuilder_add_segment_to_layer(
                             b1, found.layer, xy(pos_prev), xy(pos_cur)),
                           found.layer),
                       err |-> NoBuildError]
                 ELSE LET given == InterpolateArguments(w, command)
                          points_interpolated ==
                            CircularArcInterpolator_interpolate(
                              given.src, given.dst, given.pivot,
                              given.is_clockwise, given.max_err)
                      IN  IF points_interpolated.err # NoBuildError
                          THEN [builder |-> b1, err |-> points_interpolated.err]
                          ELSE [builder |->
                                  SaveSamples(w,
                                    AddSegments(b1, found.layer,
                                                points_interpolated.points, 1),
                                    found.layer),
                                err |-> NoBuildError] :
             found \in { ModelBuilder_get_layer_at_z(b, pos_cur.z) } })

\* ModelBuilder.handle_command, and one turn of the loop of build_model: the
\* Machine handles the command, then the builder if it is a Move
ModelBuilder_handle_command(w, b, command) ==
  TheOne({ IF command.type \in COMMANDS_MOVE
           THEN TheOne({ [world |-> handled.world, builder |-> moved.builder,
                          err |-> moved.err] :
                         moved \in { ModelBuilder_handle_move(handled.world, b,
                                                              command) } })
           ELSE [world |-> handled.world, builder |-> b, err |-> NoBuildError] :
           handled \in { Machine_handle_command(w, command) } })

\* the layers of z_to_layer, by ascending Z
RECURSIVE SortedByZ(_)
SortedByZ(z_to_layer) ==
  IF DOMAIN z_to_layer = {} THEN << >>
  ELSE LET z == CHOOSE k \in DOMAIN z_to_layer :
                  \A m \in DOMAIN z_to_layer : k <= m
       IN  << z_to_layer[z] >> \o SortedByZ(DictDel(z_to_layer, z))

\* min(), max() and statistics.mean() of a list that is not empty; the mean
\* is the fraction << sum, count >>
RECURSIVE Sum(_)
Sum(values) == IF values = << >> THEN 0 ELSE Head(values) + Sum(Tail(values))
Min(values) == CHOOSE v \in Range(values) : \A u \in Range(values) : v <= u
Max(values) == CHOOSE v \in Range(values) : \A u \in Range(values) : u <= v
Mean(values) == << Sum(values), Len(values) >>

\* build_model: path.add_padding(length=nozzle_diam / 2) for the paths of
\* the layers of z_to_layer
PadLayers(b, nozzle_diam) ==
  [b EXCEPT !.layers =
     [id \in DOMAIN b.layers |->
        IF \E z \in DOMAIN b.z_to_layer : b.z_to_layer[z] = id
        THEN [b.layers[id] EXCEPT !.paths =
                [k \in DOMAIN b.layers[id].paths |->
                   Path_add_padding(b.layers[id].paths[k], nozzle_diam \div 2)]]
        ELSE b.layers[id]]]

\* build_model: "Calc and set layer statistics" for one layer
LayerStatistics(b, id) ==
  LET temperatures == b.layer_to_temperatures[id]
      feedrates == b.layer_to_feedrates[id]
  IN  [b.layers[id] EXCEPT
         !.temperature_min = Some(Min(temperatures)),
         !.temperature_max = Some(Max(temperatures)),
         !.temperature_avg = Some(Mean(temperatures)),
         !.feedrate_min = Some(Min(feedrates)),
         !.feedrate_max = Some(Max(feedrates)),
         !.feedrate_avg = Some(Mean(temperatures))]

\* Model.__init__: index_to_layer lists the layers by ascending Z, the
\* index of a layer is its place in it
Model(layers, z_to_layer, nozzle_diam, priming_layer, priming_layer_z) ==
  [layers |-> layers,
   z_to_layer |-> z_to_layer,
   index_to_layer |-> SortedByZ(z_to_layer),
   nozzle_diam |-> nozzle_diam,
   priming_layer |-> priming_layer,
   priming_layer_z |-> priming_layer_z]

\* Model._layer_to_z[layer]
LayerToZ(model, layer) ==
  CHOOSE z \in DOMAIN model.z_to_layer : model.z_to_layer[z] = layer

\* Model.get_layer_z
Model_get_layer_z(model, index) == LayerToZ(model, model.index_to_layer[index])

\* Model.get_layer_height
Model_get_layer_height(model, index) ==
  IF index = 1 THEN Model_get_layer_z(model, index)
  ELSE Round3(Model_get_layer_z(model, index)
                - Model_get_layer_z(model, index - 1))

\* BoundingBox.__init__ and BoundingBox3D.null_object
BoundingBox(point_min, point_max) ==
  [point_min |-> point_min, point_max |-> point_max]
BoundingBox3D_null_object == BoundingBox(Point3D(0, 0, 0), Point3D(0, 0, 0))

\* min() and max() of a set of numbers that is not empty
Least(values) == CHOOSE v \in values : \A u \in values : v <= u
Greatest(values) == CHOOSE v \in values : \A u \in values : u <= v

\* Layer.boundaries, of a layer that has a path
Layer_boundaries(layer) ==
  LET vertices == UNION { Range(layer.paths[k]) : k \in DOMAIN layer.paths }
  IN  BoundingBox(Point2D(Least({ v.x : v \in vertices }),
                          Least({ v.y : v \in vertices })),
                  Point2D(Greatest({ v.x : v \in vertices }),
                          Greatest({ v.y : v \in vertices })))

\* boundaries that leave the Z of the layers out
Model_boundaries_without_priming_Flat(model) ==
  IF model.index_to_layer # << >>
  THEN LET boxes == { Layer_boundaries(model.layers[model.z_to_layer[z]]) :
                        z \in DOMAIN model.z_to_layer }
       IN  BoundingBox(Point3D(Least({ box.point_min.x : box \in boxes }),
                               Least({ box.point_min.y : box \in boxes }),
                               0),
                       Point3D(Greatest({ box.point_max.x : box \in boxes }),
                               Greatest({ box.point_max.y : box \in boxes }),
                               0))
  ELSE BoundingBox3D_null_object

\* Model._boundaries_without_priming, of a model whose layers have paths
Model_boundaries_without_priming(model) ==
  IF model.index_to_layer # << >>
  THEN LET boxes == { Layer_boundaries(model.layers[model.z_to_layer[z]]) :
                        z \in DOMAIN model.z_to_layer }
       IN  BoundingBox(Point3D(Least({ box.point_min.x : box \in boxes }),
                               Least({ box.point_min.y : box \in boxes }),
                               0),
                       Point3D(Greatest({ box.point_max.x : box \in boxes }),
                               Greatest({ box.point_max.y : box \in boxes }),
                               Greatest(DOMAIN model.z_to_layer)))
  ELSE BoundingBox3D_null_object

\* Model._boundaries_with_priming, of a model whose layers have paths
Model_boundaries_with_priming(model) ==
  IF model.priming_layer = Nothing
  THEN Model_boundaries_without_priming(model)
  ELSE LET without == Model_boundaries_without_priming(model)
           priming == Layer_boundaries(model.layers[model.priming_layer[1]])
       IN  BoundingBox(
             Point3D(Least({ without.point_min.x, priming.point_min.x }),
                     Least({ without.point_min.y, priming.point_min.y }),
                     Least({ without.point_min.z, 0 })),
             Point3D(Greatest({ without.point_max.x, priming.point_max.x }),
                     Greatest({ without.point_max.y, priming.point_max.y }),
                     Greatest({ without.point_max.z, 0 })))

\* Model.get_boundaries
Model_get_boundaries(model, with_priming) ==
  IF with_priming THEN Model_boundaries_with_priming(model)
  ELSE Model_boundaries_without_priming(model)

\* ModelInfo.from_model: the boundaries of the info; Layer.boundaries
\* raises ValueError for a layer without a path
ModelInfo_from_model(model) ==
  LET used == Range(model.index_to_layer)
                \cup (IF model.priming_layer # Nothing
                      THEN { model.priming_layer[1] } ELSE {})
  IN  IF \E id \in used : model.layers[id].paths = << >>
      THEN [err |-> OtherError("ValueError"), info |-> Nothing]
      ELSE [err |-> NoBuildError,
            info |-> Some([boundaries |-> Model_get_boundaries(model, TRUE),
                           boundaries_without_priming |->
                             Model_get_boundaries(model, FALSE)])]

\* build_model after the loop over the commands: padding, statistics, Model.
\* min() of a layer without samples is a ValueError
BuildModelEnd(b, nozzle_diam) ==
  LET padded == PadLayers(b, nozzle_diam)
      ids == { b.z_to_layer[z] : z \in DOMAIN b.z_to_layer }
  IN  IF \E id \in ids : b.layer_to_temperatures[id] = << >>
                           \/ b.layer_to_feedrates[id] = << >>
      THEN [err |-> OtherError("ValueError"), model |-> Nothing]
      ELSE [err |-> NoBuildError,
            model |-> Some(Model([id \in DOMAIN padded.layers |->
                                    IF id \in ids THEN LayerStatistics(padded, id)
                                    ELSE padded.layers[id]],
                                 b.z_to_layer, nozzle_diam,
                                 b.priming_layer, b.priming_layer_z))]

\* ------------------------------------------------------------------------
\* GcodeParser.command_generator
\* ------------------------------------------------------------------------
VARIABLES
  skip_unknown,   \* the argument skip_unknown
  pc,             \* where the generator stands: "start", "loop" (head of the
                  \* line loop), "yielded" (suspended at the yield),
                  \* "continue" (line without commands), "raised", "done"
  line_number,    \* the local line_number
  line_raw,       \* the local line_raw
  tokens,         \* the local tokens
  commands,       \* the local commands
  idx,            \* commands of this line yielded so far
  error,          \* the exception that left the generator
  last_out_line,  \* line_number of the command received last, 0 before the first
  unyielded,      \* commands parse has returned that were not yielded yet
  n_read,         \* lines taken from the input
  src             \* how line_raw was written

parser_vars == << skip_unknown, pc, line_number, line_raw, tokens, commands,
                  idx, error, last_out_line, unyielded, n_read, src >>

\* the Machines of the process (simulation/machine.py)
VARIABLES
  defaults,       \* the default arguments position and offset_position of
                  \* MachineState.__init__, two objects the process holds
  machine,        \* the Machine constructed last
  call,           \* the last call of handle_command on it: the world before
                  \* the call, the command, the exception raised
  told,          \* what that Machine was told so far
  n_commands,     \* commands handed to the Machines so far
  n_machines      \* Machines constructed so far

machine_vars == << defaults, machine, call, told, n_commands, n_machines >>

\* the builds of the process (visualization/point_cloud/model.py)
VARIABLES
  builder,        \* the ModelBuilder constructed last
  build           \* the call of build_model it belongs to: where it stands
                  \* ("commands", "built", "failed"), its nozzle_diam, the
                  \* exception that left it, the Model it returned, the
                  \* builder before the last command, and the Z of the moves
                  \* so far that deposit by the builder's rule as written

builder_vars == << builder, build >>

simulation_vars == << machine_vars, builder_vars >>

VARIABLES
  padding,        \* a call of Path.add_padding: the path and the length it
                  \* is given, and the path as the call leaves it
  worker,         \* the GcodeLoaderWorker of the loading dialog: where run
                  \* stands, the stop flag, what the loops have left to
                  \* do, the model and the payload emitted
  arc             \* a call of the CircularArcInterpolator: the arguments
                  \* it is given and what the call returns or raises

other_vars == << padding, worker, arc >>

vars == << parser_vars, simulation_vars, other_vars >>

\* no path is padded by itself
NoPadding == padding = [path |-> << >>, length |-> 0, padded |-> Nothing]

\* the interpolator is not called by itself
NoArc ==
  arc = [pc |-> "", src |-> Point2D(0, 0), dst |-> Point2D(0, 0),
         pivot |-> Point2D(0, 0), is_clockwise |-> FALSE, max_err |-> 0,
         interpolated |-> Nothing, angle_total |-> 0, angle_step |-> 0]

\* no worker was constructed
NoWorker ==
  worker = [pc |-> "", is_stop_requested |-> FALSE, nozzle_diam |-> 0,
            command |-> Nothing, paths |-> << >>, layers |-> << >>,
            model |-> Nothing, info |-> Nothing, nodes |-> << >>,
            data_out |-> << >>, finished |-> 0]

\* no build was started
NoBuilder ==
  /\ builder = ModelBuilder
  /\ build = [stage |-> "", stream |-> "", nozzle_diam |-> 0,
              error |-> NoBuildError, model |-> Nothing,
              before |-> ModelBuilder, deposits |-> << >>]

\* no Machine was constructed
NoMachine ==
  /\ defaults = DefaultArguments
  /\ machine = Machine(FALSE)
  /\ call = [before |-> World(DefaultArguments, Machine(FALSE)),
             command |-> Nothing, error |-> NoError]
  /\ told = [units |-> "", positioning |-> "", extruder |-> "", example |-> 0]
  /\ n_commands = 0
  /\ n_machines = 0
  /\ NoBuilder

NoException ==
  [type |-> "", line_number |-> Nothing, line_raw |-> << >>, error |-> NoError]

\* GcodeSyntaxError.__init__
GcodeSyntaxError(line_num, raw, cause) ==
  [type |-> "GcodeSyntaxError", line_number |-> Some(line_num),
   line_raw |-> raw, error |-> cause]

\* an exception of the parser that the generator does not catch
Uncaught(cause) ==
  [type |-> cause.type, line_number |-> Nothing, line_raw |-> << >>, error |-> cause]

\* str.strip(): from the first to the last character that is no whitespace
Strip(s) ==
  LET keep == { k \in 1..Len(s) : ~IsSpace(s[k]) }
  IN  IF keep = {} THEN << >>
      ELSE SubSeq(s, CHOOSE k \in keep : \A m \in keep : k <= m,
                     CHOOSE k \in keep : \A m \in keep : m <= k)

\* except (CommandParseError, ValueError): the command errors are subclasses
\* of CommandParseError
CaughtErrors ==
  {"CommandParseError", "CommandTokenError", "CommandMissingParamError",
   "CommandInvalidParamError", "ValueError"}

NoSrc == Src("", << >>, << >>, "")

Init ==
  /\ skip_unknown \in BOOLEAN
  /\ pc = "start"
  /\ line_number = 0
  /\ line_raw = << >>
  /\ tokens = << >>
  /\ commands = << >>
  /\ idx = 0
  /\ error = NoException
  /\ last_out_line = 0
  /\ unyielded = 0
  /\ n_read = 0
  /\ src = NoSrc
  /\ NoMachine
  /\ NoPadding
  /\ NoWorker
  /\ NoArc

\* TooLong with the comparison off by one: line_length >= _LINE_LENGTH_MAX
TooLong_OffByOne(line) == Len(line) >= LINE_LENGTH_MAX

\* line_length > GcodeParser._LINE_LENGTH_MAX
TooLong(line) == Len(line) > LINE_LENGTH_MAX

AtLoopHead == pc \in {"start", "loop"} /\ line_number < MaxLines

\* Stamp with a 0-based line number
Stamp_ZeroBased(cmds, k, n) == [cmds EXCEPT ![k].line_number = Some(n - 1)]

\* command.line_number = line_number, for the command about to be yielded
Stamp(cmds, k, n) == [cmds EXCEPT ![k].line_number = Some(n)]

\* the next line is longer than the limit: the length error
LineTooLong ==
  /\ AtLoopHead
  /\ \E input \in Lines :
       /\ TooLong(input.text)
       /\ line_number' = line_number + 1
       /\ n_read' = n_read + 1
       /\ line_raw' = input.text
       /\ src' = input.src
       /\ error' = GcodeSyntaxError(line_number + 1, input.text,
                                    Error("str", "Line length must not be greater than"))
       /\ pc' = "raised"
  /\ UNCHANGED << skip_unknown, tokens, commands, idx, last_out_line, unyielded >>
  /\ UNCHANGED << simulation_vars, other_vars >>

\* the next line fails in the scanner or the parser with an error the
\* generator catches: it is wrapped in a GcodeSyntaxError
LineSyntaxError ==
  /\ AtLoopHead
  /\ \E input \in Lines :
       LET toks == Analyze(input.text)
           parsed == Parse(toks, skip_unknown)
       IN  /\ ~TooLong(input.text)
           /\ parsed.err.type \in CaughtErrors
           /\ line_number' = line_number + 1
           /\ n_read' = n_read + 1
           /\ line_raw' = input.text
           /\ src' = input.src
           /\ tokens' = toks
           /\ error' = GcodeSyntaxError(line_number + 1, Strip(input.text), parsed.err)
           /\ pc' = "raised"
  /\ UNCHANGED << skip_unknown, commands, idx, last_out_line, unyielded >>
  /\ UNCHANGED << simulation_vars, other_vars >>

\* the next line fails with an error the generator does not catch: the
\* error leaves the generator as it is
LineUncaughtError ==
  /\ AtLoopHead
  /\ \E input \in Lines :
       LET toks == Analyze(input.text)
           parsed == Parse(toks, skip_unknown)
       IN  /\ ~TooLong(input.text)
           /\ parsed.err # NoError
           /\ parsed.err.type \notin CaughtErrors
           /\ line_number' = line_number + 1
           /\ n_read' = n_read + 1
           /\ line_raw' = input.text
           /\ src' = input.src
           /\ tokens' = toks
           /\ error' = Uncaught(parsed.err)
           /\ pc' = "raised"
  /\ UNCHANGED << skip_unknown, commands, idx, last_out_line, unyielded >>
  /\ UNCHANGED << simulation_vars, other_vars >>

\* the next line holds no command: continue
LineNoCommands ==
  /\ AtLoopHead
  /\ \E input \in Lines :
       LET toks == Analyze(input.text)
           parsed == Parse(toks, skip_unknown)
       IN  /\ ~TooLong(input.text)
           /\ parsed.err = NoError
           /\ parsed.commands = << >>
           /\ line_number' = line_number + 1
           /\ n_read' = n_read + 1
           /\ line_raw' = input.text
           /\ src' = input.src
           /\ tokens' = toks
           /\ commands' = << >>
           /\ pc' = "continue"
  /\ UNCHANGED << skip_unknown, idx, error, last_out_line, unyielded >>
  /\ UNCHANGED << simulation_vars, other_vars >>

\* the next line holds commands: the first one is stamped and yielded
LineYieldFirst ==
  /\ AtLoopHead
  /\ \E input \in Lines :
       LET toks == Analyze(input.text)
           parsed == Parse(toks, skip_unknown)
       IN  /\ ~TooLong(input.text)
           /\ parsed.err = NoError
           /\ parsed.commands # << >>
           /\ line_number' = line_number + 1
           /\ n_read' = n_read + 1
           /\ line_raw' = input.text
           /\ src' = input.src
           /\ tokens' = toks
           /\ commands' = Stamp(parsed.commands, 1, line_number + 1)
           /\ idx' = 1
           /\ unyielded' = unyielded + Len(parsed.commands) - 1
           /\ last_out_line' = line_number + 1
           /\ pc' = "yielded"
  /\ UNCHANGED << skip_unknown, error >>
  /\ UNCHANGED << simulation_vars, other_vars >>

\* resumed after a yield with commands of the line left: the next one is
\* stamped and yielded
YieldNext ==
  /\ pc = "yielded"
  /\ idx < Len(commands)
  /\ commands' = Stamp(commands, idx + 1, line_number)
  /\ idx' = idx + 1
  /\ unyielded' = unyielded - 1
  /\ last_out_line' = line_number
  /\ UNCHANGED << skip_unknown, pc, line_number, line_raw, tokens, error,
                  n_read, src >>
  /\ UNCHANGED << simulation_vars, other_vars >>

\* the body of the line loop is over (continue, or resumed after the last
\* yield of the line): back to the head of the loop.  The locals of the
\* iteration are dead there, the next iteration assigns them before any use.
NextIteration ==
  /\ \/ pc = "continue"
     \/ pc = "yielded" /\ idx = Len(commands)
  /\ pc' = "loop"
  /\ line_raw' = << >>
  /\ tokens' = << >>
  /\ commands' = << >>
  /\ idx' = 0
  /\ src' = NoSrc
  /\ UNCHANGED << skip_unknown, line_number, error, last_out_line, unyielded,
                  n_read >>
  /\ UNCHANGED << simulation_vars, other_vars >>

\* the input has no further line: the generator returns
Exhausted ==
  /\ pc \in {"start", "loop"}
  /\ pc' = "done"
  /\ UNCHANGED << skip_unknown, line_number, line_raw, tokens, commands, idx,
                  error, last_out_line, unyielded, n_read, src >>
  /\ UNCHANGED << simulation_vars, other_vars >>

Next ==
  \/ LineTooLong
  \/ LineSyntaxError
  \/ LineUncaughtError
  \/ LineNoCommands
  \/ LineYieldFirst
  \/ YieldNext
  \/ NextIteration
  \/ Exhausted

Spec == Init /\ [][Next]_vars

\* ------------------------------------------------------------------------
\* Properties
\* ------------------------------------------------------------------------
\* the locals hold the line read last and what was made of it
Processed == pc \in {"yielded", "continue", "raised"}

LengthError == error.type = "GcodeSyntaxError" /\ error.error.type = "str"

\* the lower-case form of the letters the input lines are written with
LowerOf(c) ==
  CASE c = "G" -> "g" [] c = "M" -> "m" [] c = "X" -> "x" [] c = "Y" -> "y"
    [] c = "Z" -> "z" [] c = "I" -> "i" [] c = "J" -> "j" [] c = "E" -> "e"
    [] c = "F" -> "f" [] c = "H" -> "h" [] c = "R" -> "r" [] c = "S" -> "s"
    [] OTHER -> c

Num(n) == [neg |-> FALSE, int |-> n, frac |-> << >>]

C2_LengthError ==
  /\ (Processed /\ Len(line_raw) > 256) =>
        /\ pc = "raised"
        /\ LengthError
        /\ error.line_number = Some(n_read)
        /\ error.line_raw = line_raw
        /\ unyielded = 0
  /\ (pc = "raised" /\ Len(line_raw) <= 256) => ~LengthError

C2_Witness ==
  /\ pc = "raised"
  /\ LengthError
  /\ Len(line_raw) = 257
  /\ n_read = 2
  /\ last_out_line = 1

\* a line that holds nothing but comments and whitespace
IsCommentOnly(d) ==
  \/ d.kind = "comment"
  \/ d.kind = "long" /\ d.groups[1] \in { << >>, << ";", " ", "c" >>, << "(", "c", ")" >> }

CommentLineSkipped ==
  /\ pc = "continue"
  /\ tokens = << >>
  /\ commands = << >>
  /\ error = NoException
  /\ line_number = n_read
  /\ ENABLED NextIteration

\* C3 as claimed (for lines within the length limit): an empty line or a
\* line of nothing but comments and whitespace gives no token, no command and
\* no error, and the generator goes on to the next line with the line counted.
C3_CommentLineSkipped ==
  (Processed /\ IsCommentOnly(src) /\ Len(line_raw) <= 256) => CommentLineSkipped

\* C4: grouping the tokens of a line fails with a token error if and only if
\* a parameter-letter token (x,y,z,i,j,e,f,h,r,s) comes before any
\* command-letter token (g,m,t,n,d) or some token's letter is in neither set;
\* otherwise every group starts with a command-letter token and the groups,
\* put one after the other, are the token sequence.
C4_Grouping ==
  (Processed /\ ~LengthError) =>
    LET cl == {"g", "m", "t", "n", "d"}
        pl == {"x", "y", "z", "i", "j", "e", "f", "h", "r", "s"}
        bad == \E k \in DOMAIN tokens :
                 \/ tokens[k][1] \in pl /\ \A m \in 1..(k-1) : tokens[m][1] \notin cl
                 \/ tokens[k][1] \notin cl \cup pl
        g == GroupTokensByCommand(tokens)
    IN  /\ bad <=> g.err.type = "CommandTokenError"
        /\ bad <=> (pc = "raised" /\ error.error.type = "CommandTokenError")
        /\ ~bad =>
             /\ g.err = NoError
             /\ \A k \in DOMAIN g.groups :
                  g.groups[k] # << >> /\ g.groups[k][1][1] \in cl
             /\ Cat(g.groups) = tokens

C4_Witness ==
  /\ pc = "raised"
  /\ error.error.type = "CommandTokenError"
  /\ src.kind = "letters"
  /\ Len(tokens) = 3
  /\ tokens[1][1] = "g"
  /\ tokens[2][1] = "x"
  /\ tokens[3][1] = "q"

\* a single-command line, its command and its parameters as the input wrote them
IsCommandLine == Processed /\ src.kind = "command"
CodeOf(d) == d.groups[1]
GivenParams(d) == { LowerOf(d.fields[k][1]) : k \in DOMAIN d.fields }
GivenNumber(d, l) ==
  LET k == CHOOSE k \in DOMAIN d.fields : LowerOf(d.fields[k][1]) = l
  IN  ParamNumber(d.fields[k][1])

\* the supported command table of the specification: code, command, allowed
\* parameters
SupportedTable ==
  { << << "G", "0" >>, "G0", {"x", "y", "z", "e", "f", "h", "r", "s"} >>,
    << << "G", "1" >>, "G1", {"x", "y", "z", "e", "f", "h", "r", "s"} >>,
    << << "G", "2" >>, "G2", {"x", "y", "i", "j", "e", "f"} >>,
    << << "G", "3" >>, "G3", {"x", "y", "i", "j", "e", "f"} >>,
    << << "G", "2", "8" >>, "G28", {"x", "y", "z"} >>,
    << << "G", "9", "2" >>, "G92", {"x", "y", "z", "e"} >>,
    << << "G", "2", "0" >>, "G20", {} >>,
    << << "G", "2", "1" >>, "G21", {} >>,
    << << "G", "9", "0" >>, "G90", {} >>,
    << << "G", "9", "1" >>, "G91", {} >>,
    << << "M", "8", "2" >>, "M82", {} >>,
    << << "M", "8", "3" >>, "M83", {} >>,
    << << "M", "1", "0", "4" >>, "M104", {"s", "r", "d"} >>,
    << << "M", "1", "0", "9" >>, "M109", {"s", "r", "t"} >> }
IsSupported(code) == \E e \in SupportedTable : e[1] = code
TypeOf(code) == (CHOOSE e \in SupportedTable : e[1] = code)[2]
AllowedOf(code) == (CHOOSE e \in SupportedTable : e[1] = code)[3]

\* C5 as claimed (for parameters written with a well-formed number): a
\* group of a supported command with a parameter letter outside the
\* command's allowed set is rejected with an invalid-parameter error and
\* no command is constructed from it.
C5_InvalidParamRejected ==
  (/\ IsCommandLine
   /\ src.style = "own"
   /\ IsSupported(CodeOf(src))
   /\ ~(GivenParams(src) \subseteq AllowedOf(CodeOf(src))))
  => /\ pc = "raised"
     /\ error.type = "GcodeSyntaxError"
     /\ error.error.type = "CommandInvalidParamError"
     /\ commands = << >>

\* the mandatory-field contract of a command type holds for the given set
\* of parameters
ContractMet(type, given) ==
  CASE type \in {"G0", "G1"} -> given # {}
    [] type \in {"G2", "G3"} -> {"x", "y", "i", "j", "e"} \subseteq given
    [] type = "G92" -> given # {}
    [] OTHER -> TRUE

\* C6: a linear move with no parameter, an arc move without one of
\* x,y,i,j,e and a set-position with no parameter raise
\* CommandMissingParamError; in every other case the command is constructed
\* with exactly the given fields (the number written for a given parameter,
\* None for the others); no command that exists violates its contract.
C6_MandatoryFields ==
  /\ (/\ IsCommandLine
      /\ IsSupported(CodeOf(src))
      /\ TypeOf(CodeOf(src)) \in {"G0", "G1", "G2", "G3", "G92"}
      /\ GivenParams(src) \subseteq AllowedOf(CodeOf(src))
      /\ src.style = "own" \/ src.fields = << >>)
     => LET type == TypeOf(CodeOf(src))
            given == GivenParams(src)
        IN  IF ContractMet(type, given)
            THEN /\ pc = "yielded"
                 /\ Len(commands) = 1
                 /\ commands[1].type = type
                 /\ commands[1].fields =
                      [l \in AllowedOf(CodeOf(src)) |->
                         IF l \in given THEN Some(GivenNumber(src, l)) ELSE Nothing]
            ELSE /\ pc = "raised"
                 /\ error.type = "GcodeSyntaxError"
                 /\ error.error.type = "CommandMissingParamError"
                 /\ commands = << >>
  /\ \A k \in DOMAIN commands :
       commands[k].type \in {"G0", "G1", "G2", "G3", "G92"} =>
         ContractMet(commands[k].type,
                     { l \in DOMAIN commands[k].fields :
                         commands[k].fields[l] # Nothing })

C6_Witness ==
  /\ pc = "yielded"
  /\ src.kind = "command"
  /\ CodeOf(src) = << "G", "2" >>
  /\ GivenParams(src) = {"x", "y", "i", "j", "e", "f"}
  /\ commands[1].type = "G2"
  /\ commands[1].fields["f"] = Some(Num(1200))

\* C7 as claimed: M104 or M109 without s is a missing-mandatory-parameter
\* command error, reported by the generator as a GcodeSyntaxError with the
\* line's number, its raw text and the nested cause.
C7_MissingTemperature ==
  (/\ IsCommandLine
   /\ CodeOf(src) \in { << "M", "1", "0", "4" >>, << "M", "1", "0", "9" >> }
   /\ src.style = "own"
   /\ GivenParams(src) \subseteq {"r"})
  => /\ pc = "raised"
     /\ error.type = "GcodeSyntaxError"
     /\ error.line_number = Some(n_read)
     /\ error.line_raw = Strip(line_raw)
     /\ error.error.type = "CommandMissingParamError"

\* what a command text of a many-command line is: a supported command that
\* can be constructed, a supported command that cannot, an unsupported one
GroupClass(g) ==
  CASE g = << "G", "1", " ", "X", "1" >> -> "G1"
    [] g = << "G", "9", "0" >> -> "G90"
    [] g = << "G", "2", "8", "X" >> -> "G28"
    [] g = << "M", "9", "9", "9" >> -> "unsupported"
    [] OTHER -> "malformed"
\* the line's command texts, one class each
Classes(d) == [k \in DOMAIN d.groups |-> GroupClass(d.groups[k])]
\* the first unsupported command is reached: no malformed one stands before it
UnsupportedReached(cs) ==
  \E k \in DOMAIN cs :
     /\ cs[k] = "unsupported"
     /\ \A m \in 1..(k-1) : cs[m] \notin {"unsupported", "malformed"}
NoneMalformed(cs) == \A k \in DOMAIN cs : cs[k] # "malformed"
UnsupportedRaised ==
  /\ pc = "raised"
  /\ error.type = "GcodeSyntaxError"
  /\ error.error = Error("CommandParseError", "Unsupported command")

\* C8: with skip_unknown = TRUE a line never fails for an unsupported
\* command, and (no other command of the line being malformed) the commands
\* of the line are exactly those of its supported groups, in their order;
\* with skip_unknown = FALSE the parser raises the unsupported-command error
\* when it reaches the first unsupported group (the groups before it having
\* been constructed) and no command of that line is returned.
C8_SkipUnknown ==
  (Processed /\ src.kind = "multi") =>
    LET cs == Classes(src)
    IN  /\ skip_unknown =>
             /\ ~UnsupportedRaised
             /\ NoneMalformed(cs) =>
                  /\ pc \in {"yielded", "continue"}
                  /\ [k \in DOMAIN commands |-> commands[k].type]
                       = SelectSeq(cs, LAMBDA c : c # "unsupported")
        /\ (~skip_unknown /\ UnsupportedReached(cs)) =>
             /\ UnsupportedRaised
             /\ commands = << >>
             /\ idx = 0
        /\ (~skip_unknown /\ \E k \in DOMAIN cs : cs[k] = "unsupported") =>
             /\ pc = "raised"
             /\ commands = << >>

C8_Witness ==
  /\ src.kind = "multi"
  /\ skip_unknown
  /\ pc = "yielded"
  /\ Classes(src) = << "unsupported", "G1" >>
  /\ Len(commands) = 1
  /\ commands[1].type = "G1"

\* C9: for a G28 group each flag x, y, z of the command is true exactly when
\* a token with that letter stands in the group, whatever its literal (its
\* own number, none, or 0).
C9_HomeFlags ==
  (IsCommandLine /\ CodeOf(src) = << "G", "2", "8" >>) =>
     /\ pc = "yielded"
     /\ Len(commands) = 1
     /\ commands[1].type = "G28"
     /\ \A axis \in {"x", "y", "z"} :
          commands[1].fields[axis] <=> axis \in GivenParams(src)

C9_Witness ==
  /\ pc = "yielded"
  /\ src.kind = "command"
  /\ CodeOf(src) = << "G", "2", "8" >>
  /\ src.style = "zero"
  /\ GivenParams(src) = {"x", "z"}
  /\ commands[1].fields = [x |-> TRUE, y |-> FALSE, z |-> TRUE]

\* C10: every command yielded carries the 1-based number of the input line
\* it was parsed from; commands come out in input order: the line number of
\* the command received last never decreases, and the commands of one line
\* are yielded left to right.
C10_LineNumbers ==
  /\ [](pc = "yielded" =>
          /\ idx \in 1..Len(commands)
          /\ last_out_line = n_read
          /\ \A k \in DOMAIN commands :
               commands[k].line_number = IF k <= idx THEN Some(n_read) ELSE Nothing
          /\ src.kind = "multi" =>
               [k \in DOMAIN commands |-> commands[k].type]
                 = SelectSeq(Classes(src), LAMBDA c : c # "unsupported"))
  /\ [][/\ last_out_line' >= last_out_line
        /\ (pc' = "yielded" /\ (idx' # idx \/ n_read' # n_read)) =>
             /\ idx' = (IF n_read' = n_read THEN idx ELSE 0) + 1
             /\ last_out_line' = n_read'
             /\ commands'[idx'].line_number = Some(n_read')]_vars

C10_Witness ==
  /\ pc = "yielded"
  /\ n_read = 2
  /\ idx = 2
  /\ Classes(src) = << "G90", "G1" >>
  /\ commands[2].line_number = Some(2)
  /\ commands[2].type = "G1"

\* ------------------------------------------------------------------------
\* Machines of one process: Machine(...) and Machine.handle_command
\* ------------------------------------------------------------------------
MaxMachines == 2   \* Machines constructed in the process
MaxCommands == 3   \* commands handed to the Machines of the process

\* the commands handed to a Machine, made by their constructors
Made(type, kw) == Construct(type, kw).cmd[1]
LineMoveParams ==
  { [x |-> Whole(5)], [x |-> 0], [x |-> TenThousandths(4)], [y |-> Whole(1)],
    [z |-> Milli(200)], [e |-> Whole(1)], [f |-> Whole(30)],
    [x |-> Whole(5), y |-> Whole(1)], [x |-> Whole(1), e |-> Whole(1)],
    [z |-> TenThousandths(2004), e |-> Whole(1)] }
ArcMoveParams ==
  { [x |-> Whole(5), y |-> Whole(1), i |-> Whole(2), j |-> 0, e |-> Whole(1)],
    [x |-> 0, y |-> 0, i |-> 0, j |-> Whole(1), e |-> Whole(2),
     f |-> Whole(30)] }
SetPositionParams ==
  { [x |-> 0], [x |-> Whole(1)], [z |-> Milli(200)], [e |-> 0],
    [y |-> Whole(1), e |-> Whole(1)] }
HomeFlags ==
  { [x |-> FALSE, y |-> FALSE, z |-> FALSE], [x |-> TRUE, y |-> FALSE, z |-> FALSE],
    [x |-> FALSE, y |-> TRUE, z |-> TRUE] }
KnownCommands ==
  { Made("G1", kw) : kw \in LineMoveParams }
  \cup { Made("G0", [x |-> Whole(5)]) }
  \cup { Made("G2", kw) : kw \in ArcMoveParams }
  \cup { Made("G3", kw) : kw \in ArcMoveParams }
  \cup { G28Init(flags).cmd[1] : flags \in HomeFlags }
  \cup { Made("G92", kw) : kw \in SetPositionParams }
  \cup { Made("M104", [s |-> Whole(200)]), Made("M109", [s |-> Whole(210)]) }
  \cup { Cmd(type, << >>) : type \in COMMANDS_WITHOUT_PARAMS }
\* a command of a class the Machine has no handler for
UnknownCommands == { Cmd("Command", << >>) }

\* the sequence of the example: relative positioning, then X5 twice
ExampleRelative ==
  << Cmd("G91", << >>), Made("G1", [x |-> Whole(5)]), Made("G1", [x |-> Whole(5)]) >>

\* what the Machine was told so far: the most recent command of each mode
\* pair ("" for none), and how many commands of ExampleRelative the commands
\* it handled are (-1 once they are not a prefix of it)
NothingTold == [units |-> "", positioning |-> "", extruder |-> "", example |-> 0]
Tell(g, command) ==
  [units |-> IF command.type \in {"G20", "G21"} THEN command.type ELSE g.units,
   positioning |-> IF command.type \in {"G90", "G91"} THEN command.type
                   ELSE g.positioning,
   extruder |-> IF command.type \in {"M82", "M83"} THEN command.type
                ELSE g.extruder,
   example |-> IF /\ g.example \in 0..(Len(ExampleRelative) - 1)
                  /\ ExampleRelative[g.example + 1].type = command.type
                  /\ ExampleRelative[g.example + 1] = command
               THEN g.example + 1 ELSE -1]

NoCall(w) == [before |-> w, command |-> Nothing, error |-> NoError]
Call(w, command, err) == [before |-> w, command |-> Some(command), error |-> err]

ParserIdle ==
  /\ skip_unknown = FALSE
  /\ pc = "start"
  /\ line_number = 0
  /\ line_raw = << >>
  /\ tokens = << >>
  /\ commands = << >>
  /\ idx = 0
  /\ error = NoException
  /\ last_out_line = 0
  /\ unyielded = 0
  /\ n_read = 0
  /\ src = NoSrc

\* the process has constructed its first Machine
MachineInit ==
  /\ ParserIdle
  /\ defaults = DefaultArguments
  /\ machine \in { Machine(skip) : skip \in BOOLEAN }
  /\ call = NoCall(World(defaults, machine))
  /\ told = NothingTold
  /\ n_commands = 0
  /\ n_machines = 1
  /\ NoBuilder
  /\ NoPadding
  /\ NoWorker
  /\ NoArc

\* Machine(skip_unknown=skip): another Machine is constructed and takes the
\* place of the one before
NewMachine ==
  /\ n_machines < MaxMachines
  /\ \E skip \in BOOLEAN :
       /\ machine' = Machine(skip)
       /\ call' = NoCall(World(defaults, Machine(skip)))
  /\ told' = NothingTold
  /\ n_machines' = n_machines + 1
  /\ UNCHANGED << defaults, n_commands, parser_vars, builder_vars, other_vars >>

\* machine.handle_command(command) returned r
Handled(command, r) ==
  /\ defaults' = r.world.defaults
  /\ machine' = r.world.machine
  /\ call' = Call(World(defaults, machine), command, r.error)
  /\ n_commands' = n_commands + 1
  /\ UNCHANGED << n_machines, parser_vars, builder_vars, other_vars >>

\* handle_command with a command that has a handler
HandleKnown ==
  /\ n_commands < MaxCommands
  /\ \E command \in KnownCommands :
       LET r == Machine_handle_command(World(defaults, machine), command)
       IN  /\ Machine_get_handler(command) # ""
           /\ Handled(command, r)
           /\ told' = Tell(told, command)

\* handle_command with a command that has no handler, skip_unknown set
SkipUnknown ==
  /\ n_commands < MaxCommands
  /\ machine.skip_unknown
  /\ \E command \in UnknownCommands :
       LET r == Machine_handle_command(World(defaults, machine), command)
       IN  /\ Machine_get_handler(command) = ""
           /\ Handled(command, r)
           /\ UNCHANGED told

\* handle_command with a command that has no handler, skip_unknown not set:
\* the call raises, and the caller may go on with the Machine
RaiseUnknown ==
  /\ n_commands < MaxCommands
  /\ ~machine.skip_unknown
  /\ \E command \in UnknownCommands :
       LET r == Machine_handle_command(World(defaults, machine), command)
       IN  /\ Machine_get_handler(command) = ""
           /\ Handled(command, r)
           /\ UNCHANGED told

MachineNext ==
  \/ NewMachine
  \/ HandleKnown
  \/ SkipUnknown
  \/ RaiseUnknown

MachineSpec == MachineInit /\ [][MachineNext]_vars

\* ------------------------------------------------------------------------
\* Builds of one process: ModelBuilder.build_model
\* ------------------------------------------------------------------------
MaxBuildCommands == 4   \* commands of the streams built in the process

\* MainWindowModel.NOZZLE_DIAM_DEFAULT, 0.4
NozzleDiams == { Milli(400) }

\* the commands of the streams: moves along one axis that extrude, moves
\* that lift, lower or travel, an arc, an extrusion in place, a temperature
BuildCommands ==
  { Made("G1", kw) :
      kw \in { [x |-> Whole(1), e |-> Whole(1)], [x |-> Whole(2), e |-> Whole(2)],
               [x |-> 0, e |-> Whole(3)], [y |-> Whole(1), e |-> Whole(2)],
               [z |-> Milli(200)], [z |-> TenThousandths(2004)],
               [z |-> Milli(-100)], [x |-> Whole(5)], [e |-> Whole(3)] } }
  \cup { Made("G2", [x |-> Whole(1), y |-> Whole(1), i |-> Whole(1), j |-> 0,
                     e |-> Whole(3)]) }
  \cup { Made("M104", [s |-> Whole(200)]) }

MaxLayerCommands == 9   \* commands of the streams that print layers

\* the commands of the streams that print layers: relative extrusion, a
\* move that extrudes, moves to the heights of the layers
LayerCommands ==
  { Cmd("M83", << >>) }
  \cup { Made("G1", kw) :
           kw \in { [x |-> Whole(1), e |-> Whole(1)], [z |-> Milli(100)],
                    [z |-> Milli(50)], [z |-> Milli(200)] } }

\* the streams are short ones of any commands and longer ones that print
\* layers
Streams == {"short", "layers"}
StreamCommands(stream) ==
  IF stream = "layers" THEN LayerCommands ELSE BuildCommands
StreamLength(stream) ==
  IF stream = "layers" THEN MaxLayerCommands ELSE MaxBuildCommands

\* gcode and nozzle_diam are given, ModelBuilder() is constructed
StartBuild(nozzle_diam, stream) ==
  [stage |-> "commands", stream |-> stream, nozzle_diam |-> nozzle_diam,
   error |-> NoBuildError, model |-> Nothing, before |-> ModelBuilder,
   deposits |-> << >>]

\* the process has called build_model for the first time
BuilderInit ==
  /\ ParserIdle
  /\ defaults = DefaultArguments
  /\ machine = Machine(TRUE)
  /\ call = NoCall(World(defaults, machine))
  /\ told = NothingTold
  /\ n_commands = 0
  /\ n_machines = 1
  /\ builder = ModelBuilder
  /\ NoPadding
  /\ NoWorker
  /\ NoArc
  /\ build \in { StartBuild(nozzle_diam, stream) :
                     nozzle_diam \in NozzleDiams, stream \in Streams }

\* the rule for a deposition move as it is written: a move that leaves the
\* absolute Z as it was, increases the absolute extruder value and gives X
\* or Y; before and after are the worlds around the command
Deposits(before, after, command) ==
  /\ command.type \in COMMANDS_MOVE
  /\ MachineState_position_abs(after, "state_current").z
       = MachineState_position_abs(before, "state_current").z
  /\ MachineState_extruder_abs(after, "state_current")
       > MachineState_extruder_abs(before, "state_current")
  /\ (command.fields.x # Nothing \/ command.fields.y # Nothing)

\* one turn of the loop of build_model has given r
Turned(command, r) ==
  /\ defaults' = r.world.defaults
  /\ machine' = r.world.machine
  /\ builder' = r.builder
  /\ call' = Call(World(defaults, machine), command, NoError)
  /\ told' = Tell(told, command)
  /\ build' = [build EXCEPT
       !.stage = IF r.err # NoBuildError THEN "failed" ELSE @,
       !.error = r.err,
       !.before = builder,
       !.deposits =
          IF Deposits(World(defaults, machine), r.world, command)
          THEN Append(@, MachineState_position_abs(r.world, "state_current").z)
          ELSE @]
  /\ n_commands' = n_commands + 1
  /\ UNCHANGED << n_machines, parser_vars, other_vars >>

InLoop ==
  build.stage = "commands" /\ n_commands < StreamLength(build.stream)

\* the next command is no Move: the Machine handles it
BuildOther ==
  /\ InLoop
  /\ \E command \in StreamCommands(build.stream) :
       /\ command.type \notin COMMANDS_MOVE
       /\ Turned(command, ModelBuilder_handle_command(
                            World(defaults, machine), builder, command))

\* the next command is a Move that is no layer printing move
BuildTravel ==
  /\ InLoop
  /\ \E command \in StreamCommands(build.stream) :
       LET r == ModelBuilder_handle_command(World(defaults, machine), builder,
                                            command)
       IN  /\ command.type \in COMMANDS_MOVE
           /\ ~IsLayerPrintingMove(r.world, command)
           /\ Turned(command, r)

\* the next command is a layer printing move and its segments are added
BuildDeposit ==
  /\ InLoop
  /\ \E command \in StreamCommands(build.stream) :
       LET r == ModelBuilder_handle_command(World(defaults, machine), builder,
                                            command)
       IN  /\ command.type \in COMMANDS_MOVE
           /\ IsLayerPrintingMove(r.world, command)
           /\ r.err = NoBuildError
           /\ Turned(command, r)

\* the next command is a layer printing move and _handle_move raises: the
\* exception leaves build_model
BuildRaise ==
  /\ InLoop
  /\ \E command \in StreamCommands(build.stream) :
       LET r == ModelBuilder_handle_command(World(defaults, machine), builder,
                                            command)
       IN  /\ command.type \in COMMANDS_MOVE
           /\ IsLayerPrintingMove(r.world, command)
           /\ r.err # NoBuildError
           /\ Turned(command, r)

\* the stream has no further command: padding, statistics, Model
BuildEnd ==
  /\ build.stage = "commands"
  /\ LET r == BuildModelEnd(builder, build.nozzle_diam)
     IN  build' = [build EXCEPT
           !.stage = IF r.err # NoBuildError THEN "failed" ELSE "built",
           !.error = r.err,
           !.model = r.model]
  /\ UNCHANGED << machine_vars, builder, parser_vars, other_vars >>

\* build_model is called again, with another stream, a short one:
\* ModelBuilder() is constructed, and with it a Machine
NewBuild ==
  /\ build.stage \in {"built", "failed"}
  /\ n_machines < MaxMachines
  /\ machine' = Machine(TRUE)
  /\ call' = NoCall(World(defaults, Machine(TRUE)))
  /\ told' = NothingTold
  /\ builder' = ModelBuilder
  /\ \E nozzle_diam \in NozzleDiams :
       build' = StartBuild(nozzle_diam, "short")
  /\ n_machines' = n_machines + 1
  /\ UNCHANGED << defaults, n_commands, parser_vars, other_vars >>

BuilderNext ==
  \/ BuildOther
  \/ BuildTravel
  \/ BuildDeposit
  \/ BuildRaise
  \/ BuildEnd
  \/ NewBuild

BuilderSpec == BuilderInit /\ [][BuilderNext]_vars

\* ------------------------------------------------------------------------
\* Calls of Path.add_padding
\* ------------------------------------------------------------------------
MaxPathPoints == 4   \* points of the paths that are padded

\* the points of the paths: the corners of a rectangle of 3 by 4
PathPoints == { Point2D(x, y) : x \in {0, Whole(3)}, y \in {0, Whole(4)} }

\* the paths: Path.__init__ gives two points, add_segment_to_layer appends
Paths ==
  UNION { [1..n -> PathPoints] : n \in 2..MaxPathPoints }

\* half of a nozzle diameter of 0.4 and of 0.3
PaddingLengths == { Milli(200), Milli(150) }

\* a path is about to be padded
PathInit ==
  /\ ParserIdle
  /\ NoMachine
  /\ NoWorker
  /\ NoArc
  /\ padding \in { [path |-> path, length |-> length, padded |-> Nothing] :
                    path \in Paths, length \in PaddingLengths }

\* path.add_padding(length)
AddPadding ==
  /\ padding.path # << >>
  /\ padding.padded = Nothing
  /\ padding' = [padding EXCEPT
       !.padded = Some(Path_add_padding(padding.path, padding.length))]
  /\ UNCHANGED << parser_vars, simulation_vars, worker, arc >>

PathNext == AddPadding

PathSpec == PathInit /\ [][PathNext]_vars

\* ------------------------------------------------------------------------
\* Calls of the CircularArcInterpolator
\* ------------------------------------------------------------------------
MaxRadius == 2   \* the distances of the points from the pivot, in units

\* the four directions along the axes
Directions == { Point2D(1, 0), Point2D(0, 1), Point2D(-1, 0), Point2D(0, -1) }

\* the points at a distance of 1..MaxRadius from a pivot, along the axes
Around(pivot) ==
  { Point2D(pivot.x + Whole(radius) * d.x, pivot.y + Whole(radius) * d.y) :
      radius \in 1..MaxRadius, d \in Directions }

ArcPivots == { Point2D(0, 0), Point2D(Whole(1), 0) }

\* the interpolator is about to be called for an arc
ArcInit ==
  /\ ParserIdle
  /\ NoMachine
  /\ NoPadding
  /\ NoWorker
  /\ \E pivot \in ArcPivots :
       arc \in { [pc |-> "given", src |-> source, dst |-> destination,
                  pivot |-> pivot, is_clockwise |-> is_clockwise,
                  max_err |-> Milli(50), interpolated |-> Nothing,
                  angle_total |-> 0, angle_step |-> 0] :
                 source \in Around(pivot), destination \in Around(pivot),
                 is_clockwise \in BOOLEAN }

\* CircularArcInterpolator.interpolate(src, dst, pivot, is_clockwise, max_err)
Interpolate ==
  /\ arc.pc = "given"
  /\ arc' = [arc EXCEPT
       !.pc = "interpolated",
       !.interpolated =
          Some(CircularArcInterpolator_interpolate(
                 arc.src, arc.dst, arc.pivot, arc.is_clockwise, arc.max_err))]
  /\ UNCHANGED << parser_vars, simulation_vars, padding, worker >>

\* _get_angle_step(radius, max_err, is_clockwise) and _get_angle_abs(src,
\* dst, pivot, is_clockwise), with the radius of the source
GetAngles ==
  /\ arc.pc = "given"
  /\ arc' = [arc EXCEPT
       !.pc = "angles",
       !.angle_step =
          CircularArcInterpolator_get_angle_step(
            Length(Sub2(arc.src, arc.pivot)), arc.max_err, arc.is_clockwise),
       !.angle_total =
          CircularArcInterpolator_get_angle_abs(
            arc.src, arc.dst, arc.pivot, arc.is_clockwise)]
  /\ UNCHANGED << parser_vars, simulation_vars, padding, worker >>

ArcNext ==
  \/ Interpolate
  \/ GetAngles

ArcSpec == ArcInit /\ [][ArcNext]_vars

\* ------------------------------------------------------------------------
\* A run of the GcodeLoaderWorker, with request_stop called from the thread
\* of the dialog
\* ------------------------------------------------------------------------
MaxWorkerCommands == 3   \* commands the generator yields in a run

\* the commands of the file: moves that extrude, one of them with a
\* feedrate, a lift, a descent, an arc, temperatures
WorkerCommands ==
  { Made("G1", kw) :
      kw \in { [x |-> Whole(1), e |-> Whole(1)], [y |-> Whole(1), e |-> Whole(2)],
               [x |-> Whole(2), e |-> Whole(3), f |-> Whole(30)],
               [z |-> Milli(200)], [z |-> Milli(-100)] } }
  \cup { Made("G2", [x |-> Whole(1), y |-> Whole(1), i |-> Whole(1), j |-> 0,
                     e |-> Whole(3)]) }
  \cup { Made("M104", [s |-> Whole(200)]), Made("M109", [s |-> Whole(210)]) }

\* DataOutPayload
DataOutPayload(model_node_manager, err) ==
  [model_node_manager |-> model_node_manager, error |-> err]

\* GcodeLoaderWorker.__init__, before run is called
WorkerInit ==
  /\ ParserIdle
  /\ NoPadding
  /\ NoArc
  /\ NoBuilder
  /\ defaults = DefaultArguments
  /\ machine = Machine(TRUE)
  /\ call = NoCall(World(defaults, machine))
  /\ told = NothingTold
  /\ n_commands = 0
  /\ n_machines = 1
  /\ worker \in { [pc |-> "run", is_stop_requested |-> FALSE,
                   nozzle_diam |-> nozzle_diam, command |-> Nothing,
                   paths |-> << >>, layers |-> << >>, model |-> Nothing,
                   info |-> Nothing, nodes |-> << >>, data_out |-> << >>,
                   finished |-> 0] :
                  nozzle_diam \in NozzleDiams }

\* self._is_stop_requested, as the checks of the worker read it
WorkerStopRequested_Never == FALSE
WorkerStopRequested == worker.is_stop_requested

\* the places where run reads the stop flag next: before a command, before
\* the padding of a path, before the statistics of a layer, after the Model
\* is constructed, before the node of a layer, before the manager is
\* returned
AtCheck ==
  \/ worker.pc = "command"
  \/ worker.pc = "padding" /\ worker.paths # << >>
  \/ worker.pc = "statistics" /\ worker.layers # << >>
  \/ worker.pc = "model"
  \/ worker.pc = "nodes" /\ worker.layers # << >>
  \/ worker.pc = "manager"

\* a run that emits its payload a second time
Emitted_Twice(payload) ==
  [worker EXCEPT !.pc = "emitted",
                 !.data_out = Append(Append(@, payload), payload)]

\* self.data_out.emit(payload), in the try or in a handler of run
Emitted(payload) ==
  [worker EXCEPT !.pc = "emitted", !.data_out = Append(@, payload)]

\* the (layer, path) pairs of the registered layers
RECURSIVE PathsOf(_, _)
PathsOf(b, ids) ==
  IF ids = << >> THEN << >>
  ELSE [k \in DOMAIN b.layers[Head(ids)].paths |-> << Head(ids), k >>]
         \o PathsOf(b, Tail(ids))

\* request_stop, called in the thread of the dialog while run is under way
RequestStop ==
  /\ worker.pc \notin {"", "finished"}
  /\ ~worker.is_stop_requested
  /\ worker' = [worker EXCEPT !.is_stop_requested = TRUE]
  /\ UNCHANGED << parser_vars, simulation_vars, padding, arc >>

\* a check finds the flag set: WorkerStopRequestedError is raised and run
\* emits the payload without model and without error
WorkerStop ==
  /\ AtCheck
  /\ WorkerStopRequested
  /\ worker' = Emitted(DataOutPayload(Nothing, Nothing))
  /\ UNCHANGED << parser_vars, simulation_vars, padding, arc >>

\* run counts the lines of the file and _build_point_cloud_model comes to
\* its loop over the commands; a file that cannot be read, or one without
\* lines (the progress step is 0 and divides 0), leaves run by an exception
WorkerOpen ==
  /\ worker.pc = "run"
  /\ \/ worker' = [worker EXCEPT !.pc = "next"]
     \/ \E t \in {"OSError", "ZeroDivisionError"} :
          worker' = Emitted(DataOutPayload(Nothing, Some(t)))
  /\ UNCHANGED << parser_vars, simulation_vars, padding, arc >>

\* the generator yields the next command of the file
WorkerGenerate ==
  /\ worker.pc = "next"
  /\ n_commands < MaxWorkerCommands
  /\ \E command \in WorkerCommands :
       worker' = [worker EXCEPT !.pc = "command", !.command = Some(command)]
  /\ UNCHANGED << parser_vars, simulation_vars, padding, arc >>

\* the generator raises GcodeSyntaxError for the next line of the file
WorkerSyntaxError ==
  /\ worker.pc = "next"
  /\ worker' = Emitted(DataOutPayload(Nothing, Some("GcodeSyntaxError")))
  /\ UNCHANGED << parser_vars, simulation_vars, padding, arc >>

\* the generator is exhausted: the paths to pad are listed
WorkerExhausted ==
  /\ worker.pc = "next"
  /\ worker' = [worker EXCEPT
       !.pc = "padding",
       !.command = Nothing,
       !.paths = PathsOf(builder, SortedByZ(builder.z_to_layer))]
  /\ UNCHANGED << parser_vars, simulation_vars, padding, arc >>

\* the flag is not set: builder.handle_command(command)
WorkerCommand ==
  /\ worker.pc = "command"
  /\ ~WorkerStopRequested
  /\ \E command \in { worker.command[1] } :
       \E r \in { ModelBuilder_handle_command(World(defaults, machine),
                                               builder, command) } :
         /\ defaults' = r.world.defaults
         /\ machine' = r.world.machine
         /\ builder' = r.builder
         /\ call' = Call(World(defaults, machine), command, NoError)
         /\ told' = Tell(told, command)
         /\ n_commands' = n_commands + 1
         /\ worker' = IF r.err # NoBuildError
                      THEN Emitted(DataOutPayload(Nothing, Some(r.err.type)))
                      ELSE [worker EXCEPT !.pc = "next"]
  /\ UNCHANGED << n_machines, build, parser_vars, padding, arc >>

\* the flag is not set: path.add_padding(length=self.nozzle_diam / 2)
WorkerPad ==
  /\ worker.pc = "padding"
  /\ worker.paths # << >>
  /\ ~WorkerStopRequested
  /\ LET id == Head(worker.paths)[1]
         k == Head(worker.paths)[2]
     IN  builder' = [builder EXCEPT !.layers[id].paths[k] =
                       Path_add_padding(@, worker.nozzle_diam \div 2)]
  /\ worker' = [worker EXCEPT !.paths = Tail(@)]
  /\ UNCHANGED << machine_vars, build, parser_vars, padding, arc >>

\* every path is padded: the loop over the layers for the statistics begins
WorkerPadded ==
  /\ worker.pc = "padding"
  /\ worker.paths = << >>
  /\ worker' = [worker EXCEPT !.pc = "statistics",
                              !.layers = SortedByZ(builder.z_to_layer)]
  /\ UNCHANGED << parser_vars, simulation_vars, padding, arc >>

\* the flag is not set: minimum and maximum of the samples of the layer
WorkerStatistics ==
  /\ worker.pc = "statistics"
  /\ worker.layers # << >>
  /\ ~WorkerStopRequested
  /\ LET id == Head(worker.layers)
         temperatures == builder.layer_to_temperatures[id]
         feedrates == builder.layer_to_feedrates[id]
     IN  IF temperatures = << >> \/ feedrates = << >>
         THEN /\ worker' = Emitted(DataOutPayload(Nothing, Some("ValueError")))
              /\ UNCHANGED builder
         ELSE /\ builder' = [builder EXCEPT !.layers[id] =
                   [@ EXCEPT !.temperature_min = Some(Min(temperatures)),
                             !.temperature_max = Some(Max(temperatures)),
                             !.feedrate_min = Some(Min(feedrates)),
                             !.feedrate_max = Some(Max(feedrates))]]
              /\ worker' = [worker EXCEPT !.layers = Tail(@)]
  /\ UNCHANGED << machine_vars, build, parser_vars, padding, arc >>

\* every layer has its statistics: the Model is constructed
WorkerModel ==
  /\ worker.pc = "statistics"
  /\ worker.layers = << >>
  /\ worker' = [worker EXCEPT
       !.pc = "model",
       !.model = Some(Model(builder.layers, builder.z_to_layer,
                            worker.nozzle_diam, builder.priming_layer,
                            builder.priming_layer_z))]
  /\ UNCHANGED << parser_vars, simulation_vars, padding, arc >>

\* the flag is not set: _build_point_cloud_model returns the model, and
\* _build_model_node_manager makes the manager with the info of the model
\* (or an exception leaves it) and begins the loop over the layers
WorkerReturnModel ==
  /\ worker.pc = "model"
  /\ ~WorkerStopRequested
  /\ LET made == ModelInfo_from_model(worker.model[1])
     IN  \/ worker' = IF made.err # NoBuildError
                      THEN Emitted(DataOutPayload(Nothing, Some(made.err.type)))
                      ELSE [worker EXCEPT
                              !.pc = "nodes",
                              !.info = made.info,
                              !.layers = worker.model[1].index_to_layer]
         \/ worker' = Emitted(DataOutPayload(Nothing, Some("Exception")))
  /\ UNCHANGED << parser_vars, simulation_vars, padding, arc >>

\* the flag is not set: LayerNodeBuilder.build_node makes the node of the
\* layer (or an exception leaves it)
WorkerNode ==
  /\ worker.pc = "nodes"
  /\ worker.layers # << >>
  /\ ~WorkerStopRequested
  /\ \/ worker' = [worker EXCEPT !.layers = Tail(@),
                                 !.nodes = Append(@, Head(worker.layers))]
     \/ worker' = Emitted(DataOutPayload(Nothing, Some("Exception")))
  /\ UNCHANGED << parser_vars, simulation_vars, padding, arc >>

\* every layer has its node: the node of the priming layer, if there is one
WorkerPrimingNode ==
  /\ worker.pc = "nodes"
  /\ worker.layers = << >>
  /\ \/ worker' = [worker EXCEPT
          !.pc = "manager",
          !.nodes = IF worker.model[1].priming_layer # Nothing
                    THEN Append(@, worker.model[1].priming_layer[1])
                    ELSE @]
     \/ /\ worker.model[1].priming_layer # Nothing
        /\ worker' = Emitted(DataOutPayload(Nothing, Some("Exception")))
  /\ UNCHANGED << parser_vars, simulation_vars, padding, arc >>

\* the flag is not set: the manager is returned and run emits it
WorkerEmit ==
  /\ worker.pc = "manager"
  /\ ~WorkerStopRequested
  /\ worker' = Emitted(DataOutPayload(Some(worker.nodes), Nothing))
  /\ UNCHANGED << parser_vars, simulation_vars, padding, arc >>

\* self.finished.emit()
WorkerFinish ==
  /\ worker.pc = "emitted"
  /\ worker' = [worker EXCEPT !.pc = "finished", !.finished = @ + 1]
  /\ UNCHANGED << parser_vars, simulation_vars, padding, arc >>

WorkerNext ==
  \/ RequestStop
  \/ WorkerStop
  \/ WorkerOpen
  \/ WorkerGenerate
  \/ WorkerSyntaxError
  \/ WorkerExhausted
  \/ WorkerCommand
  \/ WorkerPad
  \/ WorkerPadded
  \/ WorkerStatistics
  \/ WorkerModel
  \/ WorkerReturnModel
  \/ WorkerNode
  \/ WorkerPrimingNode
  \/ WorkerEmit
  \/ WorkerFinish

WorkerSpec == WorkerInit /\ [][WorkerNext]_vars

\* the steps of run: the thread of the worker goes on until run returns,
\* whatever the thread of the dialog does
WorkerRun ==
  \/ WorkerStop
  \/ WorkerOpen
  \/ WorkerGenerate
  \/ WorkerSyntaxError
  \/ WorkerExhausted
  \/ WorkerCommand
  \/ WorkerPad
  \/ WorkerPadded
  \/ WorkerStatistics
  \/ WorkerModel
  \/ WorkerReturnModel
  \/ WorkerNode
  \/ WorkerPrimingNode
  \/ WorkerEmit
  \/ WorkerFinish

WorkerFairSpec == WorkerInit /\ [][WorkerNext]_vars /\ WF_vars(WorkerRun)

\* ------------------------------------------------------------------------
\* Properties of the Machine
\* ------------------------------------------------------------------------
\* the attributes of a state, with the points its attributes refer to
View(w, st) ==
  [position |-> Deref(w, st, "position"),
   offset_position |-> Deref(w, st, "offset_position"),
   extruder |-> w.machine[st].extruder,
   offset_extruder |-> w.machine[st].offset_extruder,
   feedrate |-> w.machine[st].feedrate,
   temp_extruder |-> w.machine[st].temp_extruder,
   is_rel_positioning |-> w.machine[st].is_rel_positioning,
   is_rel_extruder |-> w.machine[st].is_rel_extruder,
   is_imperial |-> w.machine[st].is_imperial]

Now == World(defaults, machine)
CurrentNow == View(Now, "state_current")
PreviousNow == View(Now, "state_previous")
CurrentBefore == View(call.before, "state_current")
PreviousBefore == View(call.before, "state_previous")
AbsNow == MachineState_position_abs(Now, "state_current")
AbsBefore == MachineState_position_abs(call.before, "state_current")

\* the last call of handle_command was given a command of one of the types
LastCommand(types) == call.command # Nothing /\ call.command[1].type \in types
LastFields == call.command[1].fields
\* the last command names the parameter (a Move, G92)
Names(l) == l \in DOMAIN LastFields /\ LastFields[l] # Nothing
Axes == {"x", "y", "z"}

\* C11: after handle_command has processed a known command, state_previous
\* equals, attribute by attribute, what state_current was before the command
C11_PreviousIsBefore ==
  (call.command # Nothing /\ call.command[1] \in KnownCommands)
    => PreviousNow = CurrentBefore

\* C12: after G91 a move adds its x, y, z (0 for an absent axis) to the
\* absolute position, and G91, G1 X5, G1 X5 on a fresh machine end at x = 10
C12_RelativeMoves ==
  /\ (LastCommand(COMMANDS_MOVE) /\ told.positioning = "G91")
       => AbsNow = PointAdd(AbsBefore,
                            Point3D(IF Names("x") THEN LastFields.x[1] ELSE 0,
                                    IF Names("y") THEN LastFields.y[1] ELSE 0,
                                    IF Names("z") THEN LastFields.z[1] ELSE 0))
  /\ told.example = Len(ExampleRelative) => AbsNow.x = Whole(10)

\* value * multiplier, for the units given last (25.4 after G20)
InUnits(v) == IF told.units = "G20" THEN (v * 254) \div 10 ELSE v

C14_ExtruderAndFeedrate ==
  LastCommand(COMMANDS_MOVE)
    => /\ Names("e") =>
            CurrentNow.extruder =
              IF told.extruder = "M83"
              THEN CurrentBefore.extruder + LastFields.e[1]
              ELSE LastFields.e[1]
       /\ ~Names("e") => CurrentNow.extruder = CurrentBefore.extruder
       /\ ~Names("f") => CurrentNow.feedrate = CurrentBefore.feedrate

C14_Witness ==
  /\ LastCommand(COMMANDS_MOVE)
  /\ told.extruder = "M83"
  /\ Names("e") /\ ~Names("f")
  /\ CurrentBefore.extruder # 0
  /\ CurrentNow.extruder = CurrentBefore.extruder + LastFields.e[1]

\* C15: G28 without a flag zeroes position and offset on the three axes, G28
\* with flags zeroes them on the flagged axes and leaves the other axes as
\* they were; extruder, extruder offset, feedrate, temperature and the mode
\* flags stay as they were
C15_Homing ==
  LastCommand({"G28"})
    => LET all == ~(\E axis \in Axes : LastFields[axis])
       IN  /\ \A axis \in Axes :
                IF all \/ LastFields[axis]
                THEN /\ CurrentNow.position[axis] = 0
                     /\ CurrentNow.offset_position[axis] = 0
                ELSE /\ CurrentNow.position[axis] = CurrentBefore.position[axis]
                     /\ CurrentNow.offset_position[axis]
                          = CurrentBefore.offset_position[axis]
           /\ \A attr \in {"extruder", "offset_extruder", "feedrate",
                           "temp_extruder", "is_rel_positioning",
                           "is_rel_extruder", "is_imperial"} :
                CurrentNow[attr] = CurrentBefore[attr]

C15_Witness ==
  /\ LastCommand({"G28"})
  /\ \E axis \in Axes : LastFields[axis] /\ CurrentBefore.position[axis] # 0
  /\ \E axis \in Axes : ~LastFields[axis] /\ CurrentNow.position[axis] # 0

\* C16: after G92 with a value v for an axis or for the extruder, 0
\* included, the absolute value of it is v, the raw position and the raw
\* extruder are as they were, and an axis not named keeps its offset
C16_SetPosition ==
  LastCommand({"G92"})
    => /\ \A axis \in Axes :
            IF Names(axis) THEN AbsNow[axis] = LastFields[axis][1]
            ELSE CurrentNow.offset_position[axis]
                   = CurrentBefore.offset_position[axis]
       /\ Names("e") =>
            MachineState_extruder_abs(Now, "state_current") = LastFields.e[1]
       /\ CurrentNow.position = CurrentBefore.position
       /\ CurrentNow.extruder = CurrentBefore.extruder

\* C17: a command without a handler changes neither snapshot; it raises
\* nothing with skip_unknown set and UnknownCommandError without
C17_UnknownCommand ==
  (call.command # Nothing /\ call.command[1] \in UnknownCommands)
    => /\ CurrentNow = CurrentBefore
       /\ PreviousNow = PreviousBefore
       /\ call.before.machine.skip_unknown => call.error = NoError
       /\ ~call.before.machine.skip_unknown
            => call.error.type = "UnknownCommandError"

C17_Witness ==
  /\ call.command # Nothing /\ call.command[1] \in UnknownCommands
  /\ ~machine.skip_unknown
  /\ call.error.type = "UnknownCommandError"
  /\ PreviousNow.position # CurrentNow.position

\* C18: a Machine that was constructed and has handled nothing is at
\* position (0, 0, 0) with offset (0, 0, 0), whatever the Machines before it
\* were given
C18_FreshMachine ==
  call.command = Nothing
    => /\ CurrentNow.position = Point3D(0, 0, 0)
       /\ CurrentNow.offset_position = Point3D(0, 0, 0)

\* ------------------------------------------------------------------------
\* Properties of the ModelBuilder
\* ------------------------------------------------------------------------
\* the loop of build_model has handled a command of the stream
Turn == build.stage # "" /\ call.command # Nothing

\* the last command is a deposition move by the rule as it is written
DepositionMove == Deposits(call.before, Now, call.command[1])

\* the number of samples the builder holds
SampleCount(b) ==
  Sum([id \in DOMAIN b.layer_to_temperatures |->
         Len(b.layer_to_temperatures[id])])

\* the builder took the last command for a deposition move: it worked on a
\* layer for it, and added to it or raised
TreatedAsDeposition ==
  build.error # NoBuildError \/ SampleCount(builder) > SampleCount(build.before)

\* C19: the builder treats a command as a deposition move exactly when it
\* is a move, the absolute Z after it equals the absolute Z before it, the
\* absolute extruder value after it is greater than before it and it gives
\* an X or a Y value, 0 included; every other command adds no segment and no
\* sample
C19_DepositionMove ==
  Turn
    => /\ DepositionMove <=> TreatedAsDeposition
       /\ ~DepositionMove
            => /\ builder.layers = build.before.layers
               /\ builder.layer_to_temperatures
                    = build.before.layer_to_temperatures
               /\ builder.layer_to_feedrates = build.before.layer_to_feedrates

NonDescending(zs) == \A k \in 1..(Len(zs) - 1) : zs[k] <= zs[k + 1]

\* C20: for a stream whose deposition moves never descend, build_model
\* returns a model with one layer per distinct deposition Z, indexed 1..N
\* with strictly increasing Z; the height of layer 1 is its Z and the height
\* of layer k > 1 is Z_k - Z_(k-1)
C20_LayerPerDepositionZ ==
  (build.stage \in {"built", "failed"} /\ NonDescending(build.deposits))
    => /\ build.stage = "built"
       /\ LET model == build.model[1]
              N == Cardinality(Range(build.deposits))
          IN  /\ DOMAIN model.index_to_layer = 1..N
              /\ { Model_get_layer_z(model, k) : k \in 1..N }
                   = Range(build.deposits)
              /\ \A k \in 1..(N - 1) :
                    Model_get_layer_z(model, k) < Model_get_layer_z(model, k + 1)
              /\ N >= 1 => Model_get_layer_height(model, 1)
                             = Model_get_layer_z(model, 1)
              /\ \A k \in 2..N :
                    Model_get_layer_height(model, k)
                      = Model_get_layer_z(model, k) - Model_get_layer_z(model, k - 1)

\* the builder has handled the last command of the stream as a deposition
\* move: get_layer_at_z was called for the Z of the move
Deposited ==
  /\ Turn
  /\ call.command[1].type \in COMMANDS_MOVE
  /\ IsLayerPrintingMove(Now, call.command[1])

\* the layers z_to_layer of a builder registers
Registered(b) == { b.z_to_layer[z] : z \in DOMAIN b.z_to_layer }

\* the last deposition move is at a Z without a registered layer, below the
\* Z of the deposition move before it
Descended ==
  /\ Deposited
  /\ AbsNow.z \notin DOMAIN build.before.z_to_layer
  /\ AbsNow.z < build.before.last_layer_z

DescentErrors == {"LateEffectorDescentError", "PostPrimingDescentError"}

\* C21: with exactly one layer registered and no priming layer recorded, a
\* deposition move at a new Z below the last deposition Z makes that layer
\* the priming layer with its Z, takes it out of z_to_layer, sets the
\* priming flag and registers a new layer at the lower Z, empty but for the
\* segment of the move; after a layer at 0.1 and a descent to 0.05 the
\* layer of 0.1 is the priming layer and the only registered Z is 0.05
C21_Demotion ==
  (/\ Descended
   /\ Cardinality(DOMAIN build.before.z_to_layer) = 1
   /\ build.before.priming_layer = Nothing)
    => LET single == CHOOSE id \in Registered(build.before) : TRUE
           single_z == CHOOSE z \in DOMAIN build.before.z_to_layer : TRUE
       IN  /\ build.error.type \notin DescentErrors
           /\ builder.priming_layer = Some(single)
           /\ builder.priming_layer_z = Some(single_z)
           /\ single_z = build.before.last_layer_z
           /\ single \notin Registered(builder)
           /\ builder.is_after_post_priming_descent
           /\ DOMAIN builder.z_to_layer = { AbsNow.z }
           /\ builder.z_to_layer[AbsNow.z] \notin DOMAIN build.before.layers
           /\ Len(builder.layers[builder.z_to_layer[AbsNow.z]].paths) <= 1
           /\ builder.layers[single] = build.before.layers[single]
           /\ (single_z = Milli(100) /\ AbsNow.z = Milli(50))
                => /\ builder.priming_layer_z = Some(Milli(100))
                   /\ DOMAIN builder.z_to_layer = { Milli(50) }

C21_Witness ==
  /\ Descended
  /\ DOMAIN build.before.z_to_layer = { Milli(100) }
  /\ build.before.priming_layer = Nothing
  /\ AbsNow.z = Milli(50)
  /\ builder.priming_layer_z = Some(Milli(100))
  /\ build.error = NoBuildError

\* C22: once a priming layer is recorded, a deposition move at a Z without
\* a registered layer, below the Z of the last deposition move, raises
\* PostPrimingDescentError with the current and the previous Z, also when
\* the Z is that of the priming layer
C22_PostPrimingDescent ==
  (Descended /\ build.before.priming_layer # Nothing)
    => build.error = BuildError("PostPrimingDescentError", Some(AbsNow.z),
                                Some(build.before.last_layer_z), Nothing)

\* C23: with no priming layer recorded and more than one layer registered,
\* a deposition move at a new Z below the last deposition Z raises
\* LateEffectorDescentError with the new Z, the last deposition Z and the
\* number of registered layers; with exactly one layer registered the
\* descent raises no descent error, and a line move raises nothing
C23_LateDescent ==
  (Descended /\ build.before.priming_layer = Nothing)
    => LET count == Cardinality(DOMAIN build.before.z_to_layer)
       IN  /\ count > 1
                => build.error
                     = BuildError("LateEffectorDescentError", Some(AbsNow.z),
                                  Some(build.before.last_layer_z), Some(count))
           /\ count = 1
                => /\ build.error.type \notin DescentErrors
                   /\ call.command[1].type \in COMMANDS_LINE_MOVE
                        => build.error = NoBuildError

C23_Witness ==
  /\ Descended
  /\ build.before.priming_layer = Nothing
  /\ Cardinality(DOMAIN build.before.z_to_layer) = 2
  /\ build.error.type = "LateEffectorDescentError"
  /\ build.error.prev_layer_count = Some(2)

\* the priming layer of a builder: set with its Z exactly when the flag is
\* set, and not one of the registered layers
PrimingSound(b) ==
  /\ (b.priming_layer # Nothing) <=> b.is_after_post_priming_descent
  /\ (b.priming_layer_z # Nothing) <=> b.is_after_post_priming_descent
  /\ b.priming_layer # Nothing => b.priming_layer[1] \notin Registered(b)

\* C24: at most one priming layer per build: the priming layer is set
\* exactly when the flag is set and is no registered layer, and within a
\* build a priming layer and its Z, once set, stay as they are and the flag,
\* once set, stays set
C24_OnePrimingLayer ==
  [][/\ PrimingSound(builder)
     /\ PrimingSound(builder')
     /\ (n_machines' = n_machines /\ builder.is_after_post_priming_descent)
          => /\ builder'.is_after_post_priming_descent
             /\ builder'.priming_layer = builder.priming_layer
             /\ builder'.priming_layer_z = builder.priming_layer_z]_vars

C24_Witness ==
  /\ Deposited
  /\ build.before.is_after_post_priming_descent
  /\ builder.is_after_post_priming_descent
  /\ builder # build.before
  /\ Cardinality(DOMAIN builder.z_to_layer) > 1

\* the layers of a builder that a model is to show: the registered ones and
\* the priming layer
Shown(b) ==
  Registered(b)
    \cup (IF b.priming_layer # Nothing THEN { b.priming_layer[1] } ELSE {})

\* C25: when build_model has returned a model, every path of every
\* registered layer and of the priming layer is the path the commands
\* made, padded once by half the nozzle diameter
C25_PaddedOnce ==
  build.stage = "built"
    => \A id \in Shown(builder) :
         /\ DOMAIN build.model[1].layers[id].paths
              = DOMAIN builder.layers[id].paths
         /\ \A k \in DOMAIN builder.layers[id].paths :
               build.model[1].layers[id].paths[k]
                 = Path_add_padding(builder.layers[id].paths[k],
                                    build.nozzle_diam \div 2)

\* ------------------------------------------------------------------------
\* Properties of Path.add_padding
\* ------------------------------------------------------------------------
\* q is p moved by length along the line from adj through p, away from adj
\* (the products are taken of thousandths of the coordinates)
MovedAway(p, q, adj, length) ==
  LET d == Sub2(q, p)
      a == Sub2(p, adj)
      dk == Point2D(d.x \div 1000, d.y \div 1000)
      ak == Point2D(a.x \div 1000, a.y \div 1000)
  IN  /\ d.x * d.x + d.y * d.y = length * length
      /\ dk.x * ak.y - dk.y * ak.x = 0
      /\ dk.x * ak.x + dk.y * ak.y > 0

\* the call of add_padding keeps the number of points and the points
\* between the first and the last
PaddingKeepsInterior ==
  /\ Len(padding.padded[1]) = Len(padding.path)
  /\ \A k \in 2..(Len(padding.path) - 1) :
        padding.padded[1][k] = padding.path[k]

\* C26 as it is stated: add_padding keeps the number of points and the
\* points 2..n-1 and moves the first and the last point, each by the length
\* along the line away from its adjacent point
C26_PaddingMovesEnds ==
  padding.padded # Nothing
    => LET n == Len(padding.path)
       IN  /\ PaddingKeepsInterior
           /\ MovedAway(padding.path[1], padding.padded[1][1],
                        padding.path[2], padding.length)
           /\ MovedAway(padding.path[n], padding.padded[1][n],
                        padding.path[n - 1], padding.length)

\* C26, amended: add_padding keeps the number of points and the points
\* 2..n-1; an end point that differs from its adjacent point moves by the
\* length along the line away from it, an end point that coincides with its
\* adjacent point stays where it is
C26_PaddingMovesDistinctEnds ==
  padding.padded # Nothing
    => LET n == Len(padding.path)
           End(k, adj) ==
             IF padding.path[k] # padding.path[adj]
             THEN MovedAway(padding.path[k], padding.padded[1][k],
                            padding.path[adj], padding.length)
             ELSE padding.padded[1][k] = padding.path[k]
       IN  /\ PaddingKeepsInterior
           /\ End(1, 2)
           /\ End(n, n - 1)

C26_Witness ==
  /\ padding.padded # Nothing
  /\ Len(padding.path) = 3
  /\ padding.path[1] = padding.path[2]
  /\ padding.path[3] = Point2D(Whole(3), Whole(4))
  /\ padding.path[2] = Point2D(0, 0)
  /\ padding.padded[1][1] = padding.path[1]
  /\ padding.padded[1][3] # padding.path[3]

\* ------------------------------------------------------------------------
\* Properties of the statistics and of the arc moves
\* ------------------------------------------------------------------------
\* C27: in the model build_model returns, the temperature min, max and avg
\* of every layer are the minimum, maximum and mean of the temperature
\* samples of the layer, and the feedrate min, max and avg those of its
\* feedrate samples; feedrate_avg lies between feedrate_min and
\* feedrate_max
C27_LayerStatistics ==
  build.stage = "built"
    => \A id \in Registered(builder) :
         LET layer == build.model[1].layers[id]
             temperatures == builder.layer_to_temperatures[id]
             feedrates == builder.layer_to_feedrates[id]
         IN  /\ layer.temperature_min = Some(Min(temperatures))
             /\ layer.temperature_max = Some(Max(temperatures))
             /\ layer.temperature_avg = Some(Mean(temperatures))
             /\ layer.feedrate_min = Some(Min(feedrates))
             /\ layer.feedrate_max = Some(Max(feedrates))
             /\ layer.feedrate_avg = Some(Mean(feedrates))
             /\ layer.feedrate_min[1] * layer.feedrate_avg[1][2]
                  <= layer.feedrate_avg[1][1]
             /\ layer.feedrate_avg[1][1]
                  <= layer.feedrate_max[1] * layer.feedrate_avg[1][2]

\* the builder has given the last command, an ArcMove, to the interpolator:
\* it took the move for a deposition move and found its layer
Interpolated ==
  /\ Deposited
  /\ call.command[1].type \in COMMANDS_ARC_MOVE
  /\ build.error.type \notin DescentErrors \cup {"KeyError"}

\* what the interpolator was given
Given == InterpolateArguments(Now, call.command[1])

\* the square of the distance of p and q, in tenths
DistanceSquared(p, q) ==
  LET dx == (p.x - q.x) \div TenThousandths(1000)
      dy == (p.y - q.y) \div TenThousandths(1000)
  IN  dx * dx + dy * dy

\* source and destination are equidistant from pivot within the relative tolerance of
\* 0.01: the smaller distance is at least 0.99 of the greater
Equidistant(source, destination, pivot) ==
  LET a == DistanceSquared(source, pivot)
      b == DistanceSquared(destination, pivot)
  IN  /\ 10000 * a >= 9801 * b
      /\ 10000 * b >= 9801 * a

\* C29: interpolate raises its validation error exactly when src and dst
\* are not equidistant from pivot; when they are equidistant it raises
\* nothing
C29_ArcValidation ==
  Interpolated
    => LET equidistant == Equidistant(Given.src, Given.dst, Given.pivot)
       IN  /\ build.error.type = "ValueError" <=> ~equidistant
           /\ equidistant => build.error = NoBuildError

\* C30: for an arc deposition move the interpolator is given the pivot
\* source + (i, j), is_clockwise exactly for G2 and max_err 0.05
C30_ArcArguments ==
  Interpolated
    => /\ Given.pivot
            = Add2(Given.src, Point2D(call.command[1].fields.i[1],
                                      call.command[1].fields.j[1]))
       /\ Given.is_clockwise <=> call.command[1].type = "G2"
       /\ Given.max_err = Milli(50)

\* ------------------------------------------------------------------------
\* Properties of the GcodeLoaderWorker
\* ------------------------------------------------------------------------
\* the payload of a cancelled run
Cancelled == DataOutPayload(Nothing, Nothing)

\* C28: cancellation is polled and is no error: when the worker comes to a
\* check (before a command, before the padding of a path, before the
\* statistics of a layer, before the node of a layer) with the stop flag
\* set, it stops there: no command is fed to the builder, nothing is padded
\* or computed, and the payload it emits has no model and no error
C28_Cancellation ==
  [][ (AtCheck /\ worker.is_stop_requested)
        => /\ worker' = Emitted(Cancelled)
           /\ UNCHANGED << builder, machine, defaults, n_commands >> ]_vars

\* a run stopped inside the padding loop, after commands were handled, has
\* emitted the payload of a cancelled run
C28_Witness ==
  /\ worker.pc = "emitted"
  /\ worker.is_stop_requested
  /\ worker.data_out = << Cancelled >>
  /\ n_commands > 0
  /\ worker.paths # << >>

\* ------------------------------------------------------------------------
\* Properties of the layers and their paths
\* ------------------------------------------------------------------------
\* the layers of b that differ from what they were in a, or hold samples
\* they did not hold in a
Touched(a, b) ==
  { id \in DOMAIN b.layers :
      \/ id \notin DOMAIN a.layers
      \/ b.layers[id] # a.layers[id]
      \/ b.layer_to_temperatures[id] # a.layer_to_temperatures[id]
      \/ b.layer_to_feedrates[id] # a.layer_to_feedrates[id] }

\* C31: after a deposition move the builder has handled, a layer is
\* registered in z_to_layer at the Z of the move, and the segment and the
\* samples of the move are in that layer and in no other, so never in a
\* layer that was taken out of z_to_layer such as the priming layer
C31_SegmentInRegisteredLayer ==
  (Deposited /\ build.error = NoBuildError)
    => /\ AbsNow.z \in DOMAIN builder.z_to_layer
       /\ Touched(build.before, builder) = { builder.z_to_layer[AbsNow.z] }

\* the paths of a layer of a builder, none for a layer it has not made
PathsIn(b, id) == IF id \in DOMAIN b.layers THEN b.layers[id].paths ELSE << >>

\* the last command was a line move the builder handled as a deposition
\* move, without an exception
LineDeposited ==
  /\ Deposited
  /\ call.command[1].type \in COMMANDS_LINE_MOVE
  /\ build.error = NoBuildError

\* paths with the segment from source to destination added as
\* add_segment_to_layer is to add it
WithSegment(paths, source, destination) ==
  IF paths # << >> /\ paths[Len(paths)][Len(paths[Len(paths)])] = source
  THEN [paths EXCEPT ![Len(paths)] = Append(@, destination)]
  ELSE Append(paths, << source, destination >>)

\* C32 in a state: every path of every layer has at least 2 points, and a
\* line move handled as a deposition move has left exactly one layer with
\* other paths, those it had with the segment of the move appended to the
\* last path when that ended at the source and as a new path otherwise
PathsSound ==
  /\ \A id \in DOMAIN builder.layers :
        \A k \in DOMAIN builder.layers[id].paths :
           Len(builder.layers[id].paths[k]) >= 2
  /\ LineDeposited
       => \E id \in DOMAIN builder.layers :
             /\ \A other \in DOMAIN builder.layers \ {id} :
                   PathsIn(builder, other) = PathsIn(build.before, other)
             /\ PathsIn(builder, id)
                  = WithSegment(PathsIn(build.before, id),
                                xy(MachineState_position_abs(Now, "state_previous")),
                                xy(AbsNow))

\* C32: add_segment_to_layer appends the destination to the last path of
\* the layer when that path ends at the source of the segment and starts a
\* new path of source and destination otherwise; every path of every layer
\* has at least 2 points in every state; and of two line moves handled as
\* deposition moves one after the other at one Z, the second starts no new
\* path: it extends the path the first one ended
C32_Paths ==
  [][/\ PathsSound
     /\ PathsSound'
     /\ (/\ LineDeposited
         /\ LineDeposited'
         /\ n_machines' = n_machines
         /\ AbsNow'.z = AbsNow.z)
          => \A id \in Touched(builder, builder') :
                /\ id \in Touched(build.before, builder)
                /\ Len(builder'.layers[id].paths) = Len(builder.layers[id].paths)]_vars

\* two line moves deposited one after the other at one Z, the second
\* extending the path of the first to three points
C32_Witness ==
  /\ LineDeposited
  /\ Touched(build.before, builder) # {}
  /\ \E id \in DOMAIN build.before.layers :
        /\ Len(build.before.layers[id].paths) = 1
        /\ Len(builder.layers[id].paths) = 1
        /\ Len(builder.layers[id].paths[1]) = 3
        /\ builder.layers[id].paths[1][2] # builder.layers[id].paths[1][3]

\* ------------------------------------------------------------------------
\* Properties of the samples
\* ------------------------------------------------------------------------
\* the samples of one kind a builder holds for a layer, none for a layer it
\* has not made
SamplesIn(samples, id) == IF id \in DOMAIN samples THEN samples[id] ELSE << >>

\* the step hands the command of the worker to the builder
Handles == worker.pc = "command" /\ n_commands' = n_commands + 1

\* the step is a deposition move the builder handles without an exception
HandlesDeposition ==
  /\ Handles
  /\ worker'.pc = "next"
  /\ worker.command[1].type \in COMMANDS_MOVE
  /\ IsLayerPrintingMove(World(defaults', machine'), worker.command[1])

\* every layer of z_to_layer has a sample of each kind
Sampled(b) ==
  \A id \in Registered(b) :
     b.layer_to_temperatures[id] # << >> /\ b.layer_to_feedrates[id] # << >>

\* C33: the temperature in effect is 0 when a run begins, the s of an M104
\* or M109 once that is handled, and what it was after any other command;
\* a deposition move adds exactly one temperature sample, the temperature
\* in effect, and one feedrate sample, the feedrate in effect after the
\* move, to one layer, and no other command adds a sample; every layer of
\* z_to_layer has a sample of each kind whenever the commands have ended
C33_Samples ==
  [][/\ worker.pc = "run" => machine.state_current.temp_extruder = 0
     /\ Handles
          => LET command == worker.command[1]
                 temperature == machine'.state_current.temp_extruder
                 feedrate == machine'.state_current.feedrate
             IN  /\ temperature
                      = IF command.type \in COMMANDS_SET_TEMPERATURE
                        THEN command.fields.s[1]
                        ELSE machine.state_current.temp_extruder
                 /\ HandlesDeposition
                      => \E id \in DOMAIN builder'.layers :
                            /\ builder'.layer_to_temperatures[id]
                                 = Append(SamplesIn(builder.layer_to_temperatures, id),
                                          temperature)
                            /\ builder'.layer_to_feedrates[id]
                                 = Append(SamplesIn(builder.layer_to_feedrates, id),
                                          feedrate)
                            /\ \A other \in DOMAIN builder'.layers \ {id} :
                                  /\ builder'.layer_to_temperatures[other]
                                       = SamplesIn(builder.layer_to_temperatures, other)
                                  /\ builder'.layer_to_feedrates[other]
                                       = SamplesIn(builder.layer_to_feedrates, other)
                 /\ (worker'.pc = "next" /\ ~HandlesDeposition)
                      => /\ builder'.layer_to_temperatures
                              = builder.layer_to_temperatures
                         /\ builder'.layer_to_feedrates = builder.layer_to_feedrates
     /\ worker.pc \in {"padding", "statistics"} => Sampled(builder)]_vars

\* a layer with the samples of two deposition moves: the first after M109
\* S210, the second with a feedrate of its own, taken while statistics are
\* computed
C33_Witness ==
  /\ worker.pc = "statistics"
  /\ \E id \in Registered(builder) :
        /\ builder.layer_to_temperatures[id] = << Whole(210), Whole(210) >>
        /\ builder.layer_to_feedrates[id] = << Whole(40), Whole(30) >>

\* ------------------------------------------------------------------------
\* Properties of the CircularArcInterpolator
\* ------------------------------------------------------------------------
\* the interpolator was called for a source and a destination equidistant
\* from the pivot
InterpolatedEquidistant ==
  /\ arc.pc = "interpolated"
  /\ Length(Sub2(arc.src, arc.pivot)) = Length(Sub2(arc.dst, arc.pivot))

\* C34: for a source and a destination equidistant from the pivot,
\* interpolate returns a polyline that begins with the source, ends with
\* the destination as it was given, and has ceil(total angle / step)
\* points in between
C34_ArcPolyline ==
  InterpolatedEquidistant
    => LET returned == arc.interpolated[1]
           step_num ==
             Ceil(CircularArcInterpolator_get_angle_abs(
                    arc.src, arc.dst, arc.pivot, arc.is_clockwise),
                  CircularArcInterpolator_get_angle_step(
                    Length(Sub2(arc.src, arc.pivot)), arc.max_err,
                    arc.is_clockwise))
       IN  /\ returned.err = NoBuildError
           /\ Len(returned.points) = step_num + 2
           /\ returned.points[1] = arc.src
           /\ returned.points[Len(returned.points)] = arc.dst

\* C35: the total angle has the sign of the direction asked for, negative
\* for a clockwise arc and positive for a counter-clockwise one, and is at
\* most one full turn, so that the total angle divided by the step is not
\* negative and the number of steps is not negative
C35_ArcAngle ==
  arc.pc = "angles"
    => /\ arc.is_clockwise => arc.angle_total <= 0
       /\ ~arc.is_clockwise => arc.angle_total >= 0
       /\ Abs(arc.angle_total) <= 2 * PI
       /\ Ceil(arc.angle_total, arc.angle_step) >= 0

\* ------------------------------------------------------------------------
\* Properties of the scanner on lines that mix fields and comments
\* ------------------------------------------------------------------------
\* C36: the scanner takes each parenthesised comment and the comment from
\* ';' to the end of the line out of the line and nothing else but
\* whitespace: of a line of fields and parenthesised comments, two or more
\* of them too, with a ;-comment after them or none, the tokens are exactly
\* the fields, in their order
C36_CommentsOnlyRemoved ==
  (Processed /\ src.kind = "mixed")
    => tokens = [k \in 1..Len(src.fields) |->
                   << LowerOf(src.fields[k][1]), src.fields[k][2] >>]

\* a payload is one of three: success with the manager and no error,
\* failure with an error and no manager, cancelled with neither
OneOfThree(payload) ==
  \/ payload.model_node_manager # Nothing /\ payload.error = Nothing
  \/ payload.model_node_manager = Nothing /\ payload.error # Nothing
  \/ payload = Cancelled

\* what run has emitted so far: no payload while it works, then one payload
\* of the three kinds, and the finished signal once, after the payload
EmittedOnce ==
  /\ worker.pc \in {"emitted", "finished"} <=> Len(worker.data_out) = 1
  /\ worker.pc \notin {"emitted", "finished"} => worker.data_out = << >>
  /\ worker.pc = "finished" <=> worker.finished = 1
  /\ worker.pc # "finished" => worker.finished = 0
  /\ \A k \in DOMAIN worker.data_out : OneOfThree(worker.data_out[k])

\* C37: every run emits exactly one data_out payload and then exactly one
\* finished signal, whenever request_stop is called: never more than one
\* of either, never the signal before the payload, and in the end both;
\* the payload is a success, a failure or a cancellation, and no manager
\* comes with an error
C37_OnePayloadThenFinished ==
  /\ []EmittedOnce
  /\ [][/\ worker'.data_out \in { worker.data_out } \cup
                                { Append(worker.data_out, payload) :
                                    payload \in Range(worker'.data_out) }
        /\ worker'.finished > worker.finished => Len(worker.data_out) = 1]_vars
  /\ <>[](worker.finished = 1 /\ Len(worker.data_out) = 1)

\* a run that was asked to stop after its last check: it has delivered the
\* manager and has finished
C37_Witness ==
  /\ worker.pc = "finished"
  /\ worker.is_stop_requested
  /\ worker.finished = 1
  /\ Len(worker.data_out) = 1
  /\ worker.data_out[1].model_node_manager # Nothing
  /\ worker.data_out[1].error = Nothing

\* ------------------------------------------------------------------------
\* Properties of the boundaries
\* ------------------------------------------------------------------------
\* the points of the paths of the layers of a model that z_to_layer holds
OrdinaryPoints(model) ==
  UNION { UNION { Range(model.layers[id].paths[k]) :
                    k \in DOMAIN model.layers[id].paths } :
            id \in { model.z_to_layer[z] : z \in DOMAIN model.z_to_layer } }

\* C39: of a model that was built, the boundaries with the priming layer
\* contain those without it, point_min at most and point_max at least in
\* every component; the two are equal when there is no priming layer; the
\* boundaries without the priming layer go from Z 0 to the highest Z of a
\* layer and over the least and greatest X and Y of the points of the
\* paths of the ordinary layers; a model without layers has the null box
C39_Boundaries ==
  worker.info # Nothing
    => LET model == worker.model[1]
           with == worker.info[1].boundaries
           without == worker.info[1].boundaries_without_priming
           points == OrdinaryPoints(model)
       IN  /\ \A axis \in {"x", "y", "z"} :
                 /\ with.point_min[axis] <= without.point_min[axis]
                 /\ with.point_max[axis] >= without.point_max[axis]
           /\ model.priming_layer = Nothing => with = without
           /\ model.index_to_layer # << >>
                => /\ without.point_min
                        = Point3D(Least({ p.x : p \in points }),
                                  Least({ p.y : p \in points }), 0)
                   /\ without.point_max
                        = Point3D(Greatest({ p.x : p \in points }),
                                  Greatest({ p.y : p \in points }),
                                  Greatest(DOMAIN model.z_to_layer))
           /\ model.index_to_layer = << >>
                => without = BoundingBox3D_null_object

\* a model with a priming layer that reaches beyond the ordinary layer,
\* which lies above Z 0 or below it
C39_Witness ==
  /\ worker.info # Nothing
  /\ worker.model[1].priming_layer # Nothing
  /\ worker.info[1].boundaries # worker.info[1].boundaries_without_priming
  /\ worker.info[1].boundaries_without_priming.point_max.z # 0

\* ------------------------------------------------------------------------
\* Properties of the failures of a build
\* ------------------------------------------------------------------------
\* C38: when the builder comes to demote (a descent, no priming layer
\* recorded, at most one layer registered), a layer is registered at the Z
\* of the last deposition move, so that the demotion raises nothing; a
\* build fails with one of the two descent errors or with the validation
\* error of an arc and with nothing else, also when its first deposition
\* move is below Z 0
C38_DemotionSucceeds ==
  /\ (/\ Descended
      /\ build.before.priming_layer = Nothing
      /\ Cardinality(DOMAIN build.before.z_to_layer) <= 1)
       => /\ build.before.last_layer_z \in DOMAIN build.before.z_to_layer
          /\ build.error.type \notin {"KeyError"}
  /\ build.stage = "failed"
       => build.error.type \in DescentErrors \cup {"ValueError"}

====
